---- MODULE Spec2Model ----
(***************************************************************************)
(* vibe-logger: the session registry (SessionManager, session/manager.ts)  *)
(* and the orchestration service on top of it (VibeLoggerService,          *)
(* services/vibe-logger.ts), with the document collaborator as the         *)
(* environment.                                                            *)
(*                                                                         *)
(* Sessions are JavaScript objects shared by reference between the project *)
(* histories and the current-session slot.  The model keeps them in a heap *)
(* `sessions` (a sequence, the index is the object's address) and keeps    *)
(* references in `projectSessions` and `currentSession`.                   *)
(*                                                                         *)
(* generateSessionId() (timestamp to the second plus six random base-36    *)
(* characters) is modelled as a fresh value: the n-th session created gets *)
(* id n.  The clock is an integer number of ticks; toISOString()           *)
(* .split('T')[0] is the UTC calendar day of an instant, t \div            *)
(* TicksPerDay.                                                            *)
(*                                                                         *)
(* SessionManager.startSession awaits generateDocumentName before it reads *)
(* or writes any state, and everything after that await is synchronous, so *)
(* each SessionManager method is one atomic step.  A service method is a   *)
(* sequence of steps, one per await on the document collaborator; `call`   *)
(* holds where each tool invocation is suspended and its locals.           *)
(*                                                                         *)
(* Spec    : the SessionManager methods called directly, in any order.     *)
(* SvcSpec : the service methods, one tool invocation at a time, with the  *)
(*           collaborator failing or documents disappearing at any point.  *)
(* SvcRaceSpec: the start, continue and end methods of the service with two *)
(*           tool invocations overlapping at their suspension points.      *)
(* AuthSpec: the token lifecycle (GoogleAuth, google/auth.ts) and the      *)
(*           document client's authentication gate, one call at a time,    *)
(*           from every content of the two configuration files, with the   *)
(*           remote exchange and the token file write failing at will.     *)
(* AuthResetSpec: AuthSpec with the reset script (scripts/auth-reset.ts)   *)
(*           removing the token file and the credentials file meanwhile.   *)
(* IndexSpec: the SessionManager methods with the arguments of             *)
(*           setDocumentId kept, the clock moving a day at a time.         *)
(* NameSpec: generateDocumentName on strings of characters, the project    *)
(*           name and the operator's name drawn at the start.              *)
(* RaceSpec: getAuthenticatedClient() calls that overlap.                  *)
(***************************************************************************)
EXTENDS Integers, Sequences, FiniteSets, TLC

\* ------------------------------------------------------------------ bounds
MaxSessions == 2        \* sessions ever created
MaxTime == 2            \* last instant of the clock
TicksPerDay == 2        \* instants per UTC calendar day
MaxDocs == 2            \* documents ever created by the collaborator

Projects == {"A", "B"}              \* non-empty project names
NoProject == ""                     \* continueSession(): undefined or ''
Objectives == {"o1"}
Templates == {"project_log"}
NoSession == 0                      \* undefined / null session reference
NoDoc == 0                          \* '' / undefined / null document id
DocIds == 1 .. MaxDocs
GivenDocIds == {1, 2}               \* document ids a caller passes to setDocumentId
Callers == {1}                      \* tool invocations that can be in flight

VARIABLES
    now,               \* the clock (new Date())
    sessions,          \* heap of Session objects
    projectSessions,   \* state.projectSessions: project -> history of references
    currentSession,    \* state.currentSession: reference or NoSession
    todaysDocuments,   \* state.todaysDocuments: project -> document id or NoDoc
    result,            \* last direct SessionManager call: method, project argument,
                       \* return value, the current session it found; under
                       \* IndexSpec the arguments of setDocumentId and whether
                       \* the call repeats the one before it; seq flips at
                       \* every call
    docs,              \* collaborator: documents that exist (resolve)
    nextDoc,           \* collaborator: number of documents created so far
    call,              \* per caller: position and locals of its service call
    credentialsFile,   \* google-credentials.json: what a read of it finds
    tokenFile,         \* google-tokens.json: what a read of it finds
    oauth2Client,      \* GoogleAuth.oauth2Client: null, or a client and its credentials
    docsApi,           \* GoogleDocsClient.docsApi is set
    issued,            \* access tokens the authorization service has issued
    acall,             \* per caller: position and locals of its authentication call
    naming             \* last generateDocumentName call: inputs and the name

smVars == <<sessions, projectSessions, currentSession, todaysDocuments>>
envVars == <<docs, nextDoc>>
authVars == <<credentialsFile, tokenFile, oauth2Client, docsApi, issued, acall>>
vars == <<now, sessions, projectSessions, currentSession, todaysDocuments,
          result, docs, nextDoc, call,
          credentialsFile, tokenFile, oauth2Client, docsApi, issued, acall,
          naming>>

\* ------------------------------------------------ SessionManager: helpers

\* toISOString().split('T')[0]: the UTC calendar day of an instant
DateOf(t) == t \div TicksPerDay

getTodaysDate == DateOf(now)

\* session-<project>-<today>-<username>; the operator identity is fixed
generateDocumentName(projectName) == <<"session", projectName, getTodaysDate>>

generateSessionId == Len(sessions) + 1

\* faulty variant: the day is not compared
IsFromTodayNoCheck(session) == TRUE
\* sessionDate === todaysDate
IsFromToday(session) == DateOf(session.startTime) = getTodaysDate

\* faulty variant: the flag is left set
DeactivatedKeepFlag == sessions
\* the heap after endCurrentSession(): the current session's flag is cleared
Deactivated ==
    IF currentSession # NoSession
    THEN [sessions EXCEPT ![currentSession].isActive = FALSE]
    ELSE sessions

\* faulty variant: the slot is left occupied
ClearedSlotKept == currentSession
\* the slot after endCurrentSession()
ClearedSlot == NoSession

LastOf(hist) == hist[Len(hist)]

\* faulty variant: links to the current session, whatever its project
PreviousSessionIdOfCurrent(projectName) ==
    IF currentSession # NoSession THEN sessions[currentSession].id ELSE NoSession
\* previousSession?.id: the id of the last entry of the project's history
PreviousSessionId(projectName) ==
    LET hist == projectSessions[projectName]
    IN  IF Len(hist) > 0 THEN sessions[LastOf(hist)].id ELSE NoSession

getTodaysDocumentId(projectName) == todaysDocuments[projectName]

getCurrentSession == currentSession

NewSession(projectName, objective, template) ==
    [ id                |-> generateSessionId,
      projectName       |-> projectName,
      documentId        |-> todaysDocuments[projectName],
      documentName      |-> generateDocumentName(projectName),
      startTime         |-> now,
      objective         |-> objective,
      template          |-> template,
      previousSessionId |-> PreviousSessionId(projectName),
      isActive          |-> TRUE ]

\* ---------------------------------------------- SessionManager: operations

endCurrentSession ==
    /\ sessions' = Deactivated
    /\ currentSession' = ClearedSlot
    /\ UNCHANGED <<projectSessions, todaysDocuments>>

\* faulty variant: unshift instead of push
PushedPrepend(hist, ref) == <<ref>> \o hist
\* projectSessions.push(session)
Pushed(hist, ref) == Append(hist, ref)

\* faulty variant: the current session is not ended first
startSessionNoEnd(projectName, objective, template) ==
    LET session == NewSession(projectName, objective, template)
        ref == Len(sessions) + 1
    IN  /\ sessions' = Append(sessions, session)
        /\ projectSessions' =
               [projectSessions EXCEPT ![projectName] = Pushed(@, ref)]
        /\ currentSession' = ref
        /\ UNCHANGED todaysDocuments

startSession(projectName, objective, template) ==
    LET session == NewSession(projectName, objective, template)
        ref == Len(sessions) + 1
    IN  /\ sessions' = Append(Deactivated, session)
        /\ projectSessions' =
               [projectSessions EXCEPT ![projectName] = Pushed(@, ref)]
        /\ currentSession' = ref
        /\ UNCHANGED todaysDocuments

\* faulty variant: a stale current session is reported but not cleared
ContinueBranchNoClear(projectName) ==
    IF projectName # NoProject /\ Len(projectSessions[projectName]) > 0
    THEN IF IsFromToday(sessions[LastOf(projectSessions[projectName])])
         THEN "reactivate" ELSE "stale"
    ELSE IF currentSession # NoSession
         THEN IF IsFromToday(sessions[currentSession])
              THEN "current" ELSE "stale"
         ELSE "none"
\* which branch continueSession takes
ContinueBranch(projectName) ==
    IF projectName # NoProject /\ Len(projectSessions[projectName]) > 0
    THEN IF IsFromToday(sessions[LastOf(projectSessions[projectName])])
         THEN "reactivate" ELSE "stale"
    ELSE IF currentSession # NoSession
         THEN IF IsFromToday(sessions[currentSession])
              THEN "current" ELSE "clear"
         ELSE "none"

\* the value continueSession returns
continueSessionResult(projectName) ==
    CASE ContinueBranch(projectName) = "reactivate" ->
             LastOf(projectSessions[projectName])
      [] ContinueBranch(projectName) = "current" -> currentSession
      [] OTHER -> NoSession

\* faulty variant: the reactivated session is not put in the slot
continueSessionKeepSlot(projectName) ==
    CASE ContinueBranch(projectName) = "reactivate" ->
             LET lastSession == LastOf(projectSessions[projectName])
             IN  /\ sessions' = [Deactivated EXCEPT ![lastSession].isActive = TRUE]
                 /\ UNCHANGED <<projectSessions, currentSession, todaysDocuments>>
      [] ContinueBranch(projectName) = "clear" -> endCurrentSession
      [] OTHER -> UNCHANGED smVars

continueSession(projectName) ==
    CASE ContinueBranch(projectName) = "reactivate" ->
             LET lastSession == LastOf(projectSessions[projectName])
             IN  /\ sessions' = [Deactivated EXCEPT ![lastSession].isActive = TRUE]
                 /\ currentSession' = lastSession
                 /\ UNCHANGED <<projectSessions, todaysDocuments>>
      [] ContinueBranch(projectName) = "clear" -> endCurrentSession
      [] OTHER -> UNCHANGED smVars

\* the session the scan of setDocumentId finds, or NoSession
FindSession(sessionId) ==
    LET found == { ref \in 1 .. Len(sessions) :
                     /\ sessions[ref].id = sessionId
                     /\ \E p \in Projects : \E i \in 1 .. Len(projectSessions[p]) :
                            projectSessions[p][i] = ref }
    IN  IF found = {} THEN NoSession ELSE CHOOSE ref \in found : TRUE

\* faulty variant: the first project, whichever history holds the session
HistoryOfFirst(ref) == CHOOSE p \in Projects : p = "A"

\* the key of the history the session was found in
HistoryOf(ref) ==
    CHOOSE p \in Projects : \E i \in 1 .. Len(projectSessions[p]) :
        projectSessions[p][i] = ref

\* faulty variant: an id that is already set is cleared
setDocumentIdToggle(sessionId, documentId) ==
    LET ref == FindSession(sessionId)
    IN  IF ref = NoSession
        THEN UNCHANGED smVars
        ELSE LET d == IF sessions[ref].documentId = documentId
                      THEN NoDoc ELSE documentId
             IN  /\ sessions' = [sessions EXCEPT ![ref].documentId = d]
                 /\ todaysDocuments' =
                        [todaysDocuments EXCEPT ![HistoryOf(ref)] = d]
                 /\ UNCHANGED <<projectSessions, currentSession>>

setDocumentId(sessionId, documentId) ==
    LET ref == FindSession(sessionId)
    IN  IF ref = NoSession
        THEN UNCHANGED smVars
        ELSE /\ sessions' = [sessions EXCEPT ![ref].documentId = documentId]
             /\ todaysDocuments' =
                    [todaysDocuments EXCEPT ![HistoryOf(ref)] = documentId]
             /\ UNCHANGED <<projectSessions, currentSession>>

\* ============================================================ GoogleAuth
\* (google/auth.ts): the OAuth2 token lifecycle and the document client's
\* authentication gate.  A token set is a record
\*   [access_token, refresh_token, expiry_date]
\* where access_token 0 is '' / undefined, refresh_token 0 is undefined and
\* expiry_date is an instant of the clock, 0, or Undefined.  The remote
\* authorization service is the environment: an exchange or a refresh either
\* is rejected or answers with a token set that carries a new access token
\* and expires a full token lifetime after the answer.

Undefined == -1                     \* expiry_date: undefined / null / missing
NoToken == 0                        \* access_token '' / undefined, refresh_token undefined
AuthCallers == {1}                  \* callers of the authentication layer

TokenLifetime == MaxTime + 1        \* a token issued now outlives the clock
StoredAccessToken == 1              \* the access token of a token file found at start
RefreshToken == 1                   \* the refresh token granted at consent

EmptyCredentials ==
    [access_token |-> NoToken, refresh_token |-> NoToken, expiry_date |-> Undefined]

\* token sets a token file can hold before the server starts
StoredTokens ==
    [ access_token  : {NoToken, StoredAccessToken},
      refresh_token : {NoToken, RefreshToken},
      expiry_date   : {Undefined} \cup (0 .. MaxTime) ]

AbsentFile == [kind |-> "absent", tokens |-> EmptyCredentials]

\* google-tokens.json: absent, not JSON, JSON of the wrong shape, or a token set
TokenFiles ==
    { [kind |-> k, tokens |-> EmptyCredentials] : k \in {"absent", "notJson", "badSchema"} }
    \cup { [kind |-> "tokens", tokens |-> t] : t \in StoredTokens }

\* a client configuration: '' / [] stand for a field that is missing
Credential ==
    [client_id |-> "id", client_secret |-> "secret", redirect_uris |-> <<"uri">>]

\* the configuration, and the configuration with one required field missing
CredentialBodies ==
    { Credential,
      [Credential EXCEPT !.client_id = ""],
      [Credential EXCEPT !.client_secret = ""],
      [Credential EXCEPT !.redirect_uris = <<>>] }

NoCredential == [client_id |-> "", client_secret |-> "", redirect_uris |-> <<>>]

\* google-credentials.json: absent, not JSON, or JSON holding a configuration
\* flat or wrapped in { installed: ... }
CredentialsFiles ==
    { [kind |-> k, content |-> NoCredential] : k \in {"absent", "notJson"} }
    \cup { [kind |-> "json", content |-> b] : b \in CredentialBodies }
    \cup { [kind |-> "json", content |-> [installed |-> b]] : b \in CredentialBodies }

InstalledFile == [kind |-> "json", content |-> [installed |-> Credential]]

\* faulty variant: the redirect targets are optional
GoogleCredentialsSchemaNoRedirect(data) ==
    /\ data.client_id # ""
    /\ data.client_secret # ""

\* GoogleCredentialsSchema: client_id, client_secret non-empty, redirect_uris
\* with at least one entry
GoogleCredentialsSchema(data) ==
    /\ data.client_id # ""
    /\ data.client_secret # ""
    /\ Len(data.redirect_uris) >= 1

\* GoogleCredentialsFileSchema: the flat object or { installed: ... }
GoogleCredentialsFileSchema(content) ==
    IF "installed" \in DOMAIN content
    THEN GoogleCredentialsSchema(content.installed)
    ELSE GoogleCredentialsSchema(content)

\* initialize: 'installed' in file ? file.installed : file
CredentialsOf(content) ==
    IF "installed" \in DOMAIN content THEN content.installed ELSE content

\* initialize: readFile, JSON.parse and the schema all succeed
CredentialsLoad(file) ==
    file.kind = "json" /\ GoogleCredentialsFileSchema(file.content)

NoRead == [kind |-> "none", content |-> NoCredential]

\* TokenDataSchema: the transform maps a falsy expiry_date (0, null) to undefined
TokenDataSchema(data) ==
    [ access_token  |-> data.access_token,
      refresh_token |-> data.refresh_token,
      expiry_date   |-> IF data.expiry_date = 0 THEN Undefined ELSE data.expiry_date ]

\* messages of the errors thrown and of the lines logged
ErrNoClient == "OAuth2 client not initialized"
ErrNoAccessToken == "No access token available. Authentication required."
ErrRefreshFailed == "Token refresh failed. Re-authentication required."
ErrInitialize == "Failed to initialize Google Auth"
ErrCodeFormat == "Invalid authorization code format"
ErrExchange == "Failed to exchange auth code"
ErrAuthRequired == "Authentication required. Please visit: <authUrl>"
LogInvalidFormat == "Invalid token format found. Re-authentication required."
LogNoValidTokens == "No valid tokens found. Authentication required."

\* the message holds the authorization URL
CarriesAuthUrl(message) == message = ErrAuthRequired

NoClient == [exists |-> FALSE, config |-> NoCredential, credentials |-> EmptyCredentials]

IdleAuthCall ==
    [ pc              |-> "idle",   \* where the call is suspended
      op              |-> "none",   \* the method the caller invoked
      code            |-> "",       \* handleAuthCode: the code argument
      hadClient       |-> FALSE,    \* a client existed when the call began
      read            |-> NoRead,   \* initialize: what the credentials file held
      via             |-> "none",   \* who called refreshTokens / saveTokens
      tokens          |-> EmptyCredentials,  \* local: validatedTokens
      before          |-> [credentials |-> EmptyCredentials, file |-> AbsentFile],
                                    \* memory and file when refreshTokens /
                                    \* handleAuthCode was entered
      entry           |-> EmptyCredentials,  \* credentials getAuthenticatedClient found
      entryExpired    |-> FALSE,    \* isTokenExpired at that point
      loaded          |-> "none",   \* loadTokens: what the read found
      log             |-> "",       \* loadTokens: the line logged
      initialized     |-> "none",   \* GoogleAuth.initialize(): "ok" / "error"
      loadRefresh     |-> "none",   \* refreshTokens() inside loadTokens: "ok" / "failed"
      update          |-> "none",   \* latest refreshTokens() / handleAuthCode(): "ok" / "failed"
      answered        |-> FALSE,    \* the remote answered the latest request with tokens
      ensured         |-> "none",   \* ensureAuthenticated: what isAuthenticated() saw
      refreshCalls    |-> 0,        \* refresh requests sent to the remote
      failedRefreshes |-> 0,        \* refreshTokens() calls that threw
      networkCalls    |-> 0,        \* requests sent to the remote
      error           |-> "" ]      \* message of the error thrown to the caller

\* ------------------------------------------------------------------- state

\* no document name asked for
NoNaming ==
    [ project |-> <<>>,                               \* projectName
      git     |-> [ok |-> FALSE, stdout |-> <<>>],    \* what `git config user.name` does
      user    |-> [defined |-> FALSE, value |-> <<>>],  \* process.env.USER
      date    |-> 0,                                  \* the day of the call
      done    |-> FALSE,                              \* the name has been generated
      name    |-> <<>> ]                              \* the name

NoResult == [op |-> "none", project |-> NoProject, ret |-> NoSession,
             prev |-> NoSession, sessionId |-> NoSession, documentId |-> NoDoc,
             repeat |-> FALSE, seq |-> 0]

IdleCall ==
    [ pc            |-> "idle",     \* where the call is suspended
      op            |-> "none",     \* the service method
      project       |-> NoProject,  \* input.project
      session       |-> NoSession,  \* local: session / currentSession
      existing      |-> NoDoc,      \* local: existingDocumentId
      resolved      |-> FALSE,      \* getDocument(existingDocumentId) succeeded
      document      |-> NoDoc,      \* local: document.id
      isNewDocument |-> FALSE,      \* local: isNewDocument
      created       |-> 0,          \* documents this call created
      docCalls      |-> 0,          \* collaborator calls this call made
      error         |-> "" ]        \* the error thrown, "" when none

Init ==
    /\ now = 0
    /\ sessions = <<>>
    /\ projectSessions = [p \in Projects |-> <<>>]
    /\ currentSession = NoSession
    /\ todaysDocuments = [p \in Projects |-> NoDoc]
    /\ result = NoResult
    /\ docs = {}
    /\ nextDoc = 0
    /\ call = [c \in Callers |-> IdleCall]
    /\ credentialsFile = InstalledFile
    /\ tokenFile = AbsentFile
    /\ oauth2Client = NoClient
    /\ docsApi = FALSE
    /\ issued = 0
    /\ acall = [c \in AuthCallers |-> IdleAuthCall]
    /\ naming = NoNaming

\* ------------------------------------ the SessionManager called directly

Tick ==
    /\ now < MaxTime
    /\ now' = now + 1
    /\ UNCHANGED <<authVars, smVars, result, envVars, call, naming>>

SMStartSession(projectName, objective, template) ==
    /\ Len(sessions) < MaxSessions
    /\ startSession(projectName, objective, template)
    /\ result' = [op |-> "startSession", project |-> projectName,
                  ret |-> Len(sessions) + 1, prev |-> currentSession,
                  sessionId |-> NoSession, documentId |-> NoDoc,
                  repeat |-> FALSE,
                  seq |-> 1 - result.seq]
    /\ UNCHANGED <<authVars, now, naming, envVars, call>>

SMContinueSession(projectName) ==
    /\ continueSession(projectName)
    /\ result' = [op |-> "continueSession", project |-> projectName,
                  ret |-> continueSessionResult(projectName),
                  prev |-> currentSession,
                  sessionId |-> NoSession, documentId |-> NoDoc,
                  repeat |-> FALSE,
                  seq |-> 1 - result.seq]
    /\ UNCHANGED <<authVars, now, naming, envVars, call>>

SMEndCurrentSession ==
    /\ endCurrentSession
    /\ result' = [op |-> "endCurrentSession", project |-> NoProject,
                  ret |-> NoSession, prev |-> currentSession,
                  sessionId |-> NoSession, documentId |-> NoDoc,
                  repeat |-> FALSE,
                  seq |-> 1 - result.seq]
    /\ UNCHANGED <<authVars, now, naming, envVars, call>>

SMSetDocumentId(sessionId, documentId) ==
    /\ setDocumentId(sessionId, documentId)
    /\ result' = [op |-> "setDocumentId", project |-> NoProject,
                  ret |-> NoSession, prev |-> currentSession,
                  sessionId |-> NoSession, documentId |-> NoDoc,
                  repeat |-> FALSE,
                  seq |-> 1 - result.seq]
    /\ UNCHANGED <<authVars, now, naming, envVars, call>>

\* ------------------------- the SessionManager called with a document id
\* The same calls with the arguments of setDocumentId kept in result.  The
\* manager reads the clock only through the calendar day, so here the clock
\* moves a day at a time.

NextDay ==
    /\ now + TicksPerDay <= MaxTime
    /\ now' = now + TicksPerDay
    /\ UNCHANGED <<authVars, smVars, result, envVars, call, naming>>

IdxSetDocumentId(sessionId, documentId) ==
    /\ setDocumentId(sessionId, documentId)
    /\ result' = [op |-> "setDocumentId", project |-> NoProject,
                  ret |-> NoSession, prev |-> currentSession,
                  sessionId |-> sessionId, documentId |-> documentId,
                  repeat |-> /\ result.op = "setDocumentId"
                             /\ result.sessionId = sessionId
                             /\ result.documentId = documentId,
                  seq |-> 1 - result.seq]
    /\ UNCHANGED <<authVars, now, naming, envVars, call>>

\* ------------------------------------------------------ document names
\* generateDocumentName on the characters.  A string is a sequence of
\* characters; "A" stands for the upper-case letters, "7" for the digits,
\* " " for white space and "_" for every other character.

NameCap == 50                       \* sanitizeProjectName: .slice(0, 50)
MaxNameLen == 2                     \* length of the short project names tried;
                                    \* operator names are one character shorter

Chars == {"a", "A", "7", " ", "-", "_"}
LowerLetters == {"a", "d", "e", "i", "l", "n", "o", "p", "r", "s", "v"}
DigitChars == <<"0", "1", "2", "3", "4", "5", "6", "7", "8", "9">>
Digits == { DigitChars[i] : i \in 1 .. 10 }
Spaces == {" "}

Strings(n) == UNION { [1 .. k -> Chars] : k \in 0 .. n }

\* the first n characters of unit repeated
Cycle(unit, n) == [i \in 1 .. n |-> unit[((i - 1) % Len(unit)) + 1]]

\* project names: every short string, and names about as long as the cap
Units == { <<"a">>, <<"a", "-">>, <<"a", " ">>, <<"A", "_">> }
ProjectNames ==
    Strings(MaxNameLen)
    \cup { Cycle(u, n) : u \in Units, n \in (NameCap - 1) .. (NameCap + 2) }

\* `git config user.name`: the command fails, or prints a configured name
GitOutcomes ==
    { [ok |-> FALSE, stdout |-> <<>>] }
    \cup { [ok |-> TRUE, stdout |-> t] : t \in Strings(MaxNameLen - 1) }

\* process.env.USER: undefined or a string
EnvUsers ==
    { [defined |-> FALSE, value |-> <<>>] }
    \cup { [defined |-> TRUE, value |-> t] : t \in Strings(MaxNameLen - 1) }

\* toLowerCase()
toLowerCase(str) == [i \in 1 .. Len(str) |-> IF str[i] = "A" THEN "a" ELSE str[i]]

RECURSIVE DropWhile(_, _)
DropWhile(str, class) ==
    IF str # <<>> /\ Head(str) \in class THEN DropWhile(Tail(str), class) ELSE str

\* replace(/[class]+/g, by)
RECURSIVE ReplaceRuns(_, _, _)
ReplaceRuns(str, class, by) ==
    IF str = <<>> THEN <<>>
    ELSE IF Head(str) \in class
         THEN <<by>> \o ReplaceRuns(DropWhile(Tail(str), class), class, by)
         ELSE <<Head(str)>> \o ReplaceRuns(Tail(str), class, by)

\* replace(/[^a-z0-9\s-]/g, '')
StripUnsafe(str) ==
    SelectSeq(str, LAMBDA ch : ch \in LowerLetters \cup Digits \cup Spaces \cup {"-"})

\* replace(/^-|-$/g, '')
TrimHyphens(str) ==
    LET front == IF str # <<>> /\ Head(str) = "-" THEN Tail(str) ELSE str
    IN  IF front # <<>> /\ front[Len(front)] = "-"
        THEN SubSeq(front, 1, Len(front) - 1)
        ELSE front

\* slice(0, n)
Slice(str, n) == SubSeq(str, 1, IF Len(str) < n THEN Len(str) ELSE n)

Reverse(str) == [i \in 1 .. Len(str) |-> str[Len(str) + 1 - i]]

\* trim()
Trim(str) == Reverse(DropWhile(Reverse(DropWhile(str, Spaces)), Spaces))

sanitizeProjectName(name) ==
    Slice(TrimHyphens(ReplaceRuns(ReplaceRuns(StripUnsafe(toLowerCase(name)),
                                              Spaces, "-"),
                                  {"-"}, "-")),
          NameCap)

Developer == <<"d", "e", "v", "e", "l", "o", "p", "e", "r">>

\* git's user.name, or $USER when the command fails, or 'developer'
getCurrentUsername(git, user) ==
    IF git.ok
    THEN ReplaceRuns(toLowerCase(Trim(git.stdout)), Spaces, "-")
    ELSE IF user.defined /\ user.value # <<>>
         THEN ReplaceRuns(toLowerCase(user.value), Spaces, "-")
         ELSE Developer

\* toISOString().split('T')[0] as text: yyyy-mm-dd
DateText(day) ==
    <<"2", "0", "2", "5", "-", "0", "1", "-",
      DigitChars[((day + 1) \div 10) + 1], DigitChars[((day + 1) % 10) + 1]>>

\* `session-${cleanProject}-${today}-${username}`
DocumentNameText(projectName, today, username) ==
    <<"s", "e", "s", "s", "i", "o", "n", "-">> \o sanitizeProjectName(projectName)
        \o <<"-">> \o today \o <<"-">> \o username

\* generateDocumentName(projectName)
GenerateDocumentName ==
    /\ ~naming.done
    /\ naming' = [naming EXCEPT
                     !.done = TRUE,
                     !.date = getTodaysDate,
                     !.name = DocumentNameText(naming.project, DateText(getTodaysDate),
                                               getCurrentUsername(naming.git, naming.user))]
    /\ UNCHANGED <<now, smVars, result, envVars, call, authVars>>

\* the environment of one call: $USER matters only when git fails
NameInputs ==
    { [NoNaming EXCEPT !.project = p, !.git = git] :
          p \in ProjectNames, git \in GitOutcomes }
    \cup { [NoNaming EXCEPT !.project = p, !.user = user] :
               p \in ProjectNames, user \in EnvUsers }

NameInit ==
    /\ now = 0
    /\ sessions = <<>>
    /\ projectSessions = [p \in Projects |-> <<>>]
    /\ currentSession = NoSession
    /\ todaysDocuments = [p \in Projects |-> NoDoc]
    /\ result = NoResult
    /\ docs = {}
    /\ nextDoc = 0
    /\ call = [c \in Callers |-> IdleCall]
    /\ credentialsFile = InstalledFile
    /\ tokenFile = AbsentFile
    /\ oauth2Client = NoClient
    /\ docsApi = FALSE
    /\ issued = 0
    /\ acall = [c \in AuthCallers |-> IdleAuthCall]
    /\ naming \in NameInputs

NameNext ==
    \/ Tick
    \/ GenerateDocumentName

NameSpec == NameInit /\ [][NameNext]_vars

\* ------------------------------------------- the document collaborator

\* a document deleted externally no longer resolves
DeleteDocument(d) ==
    /\ d \in docs
    /\ docs' = docs \ {d}
    /\ UNCHANGED <<authVars, now, naming, smVars, result, nextDoc, call>>

\* getDocument(d) / appendContent(d, ...) can succeed only on a document that
\* exists; any collaborator call can fail (authentication, network)
Resolves(d) == d \in docs

\* ------------------------------------------------- VibeLoggerService

NoCallInFlight == \A c \in Callers : call[c].pc = "idle"

\* faulty variant: the index is ignored
StartBranchAlwaysCreate(existingDocumentId) == "createDocument"
\* if (existingDocumentId) ... else ...
StartBranch(existingDocumentId) ==
    IF existingDocumentId # NoDoc THEN "getDocument" ELSE "createDocument"

\* startSession: sessionManager.startSession, then the index lookup; suspends
\* on getDocument or on createDocument
SvcStartSession(c, projectName, objective, template) ==
    /\ call[c].pc = "idle"
    /\ Len(sessions) < MaxSessions
    /\ startSession(projectName, objective, template)
    /\ call' = [call EXCEPT ![c] =
                  [IdleCall EXCEPT
                     !.pc = StartBranch(getTodaysDocumentId(projectName)),
                     !.op = "startSession",
                     !.project = projectName,
                     !.session = Len(sessions) + 1,
                     !.existing = getTodaysDocumentId(projectName)]]
    /\ UNCHANGED <<authVars, now, naming, result, envVars>>

\* isNewDocument on the branch that found the existing document
ReusedIsNew == FALSE

\* getDocument(existingDocumentId) resolved: reuse the document, link the
\* session to it, suspend on the session header
SvcStartGetDocumentOk(c) ==
    /\ call[c].pc = "getDocument"
    /\ Resolves(call[c].existing)
    /\ setDocumentId(sessions[call[c].session].id, call[c].existing)
    /\ call' = [call EXCEPT ![c].pc = "header",
                            ![c].resolved = TRUE,
                            ![c].document = call[c].existing,
                            ![c].isNewDocument = ReusedIsNew,
                            ![c].docCalls = @ + 1]
    /\ UNCHANGED <<authVars, now, naming, result, envVars>>

\* getDocument threw: "Document might have been deleted, create a new one"
SvcStartGetDocumentFail(c) ==
    /\ call[c].pc = "getDocument"
    /\ call' = [call EXCEPT ![c].pc = "createDocument",
                            ![c].docCalls = @ + 1]
    /\ UNCHANGED <<authVars, now, naming, smVars, result, envVars>>

\* createSessionDocument: createDocument succeeded, suspend on the template
SvcCreateDocumentOk(c) ==
    /\ call[c].pc = "createDocument"
    /\ nextDoc < MaxDocs
    /\ nextDoc' = nextDoc + 1
    /\ docs' = docs \cup {nextDoc + 1}
    /\ call' = [call EXCEPT ![c].pc = "template",
                            ![c].document = nextDoc + 1,
                            ![c].created = @ + 1,
                            ![c].docCalls = @ + 1]
    /\ UNCHANGED <<authVars, now, naming, smVars, result>>

\* createSessionDocument returned: link the session, suspend on the header
SvcAppendTemplateOk(c) ==
    /\ call[c].pc = "template"
    /\ Resolves(call[c].document)
    /\ setDocumentId(sessions[call[c].session].id, call[c].document)
    /\ call' = [call EXCEPT ![c].pc = "header",
                            ![c].isNewDocument = TRUE,
                            ![c].docCalls = @ + 1]
    /\ UNCHANGED <<authVars, now, naming, result, envVars>>

\* addSessionHeader succeeded: startSession returns
SvcAddSessionHeaderOk(c) ==
    /\ call[c].pc = "header"
    /\ Resolves(call[c].document)
    /\ call' = [call EXCEPT ![c].pc = "done", ![c].docCalls = @ + 1]
    /\ UNCHANGED <<authVars, now, naming, smVars, result, envVars>>

\* messages of the errors the service throws
ErrDocumentGone == "Session document no longer exists"
ErrNoActiveSession == "No active session. Start a session first."

\* continueSession: sessionManager.continueSession; returns null when it
\* found no session, else suspends on getDocument(session.documentId)
SvcContinueSession(c, projectName) ==
    LET session == continueSessionResult(projectName)
    IN  /\ call[c].pc = "idle"
        /\ continueSession(projectName)
        /\ call' = [call EXCEPT ![c] =
                      [IdleCall EXCEPT
                         !.pc = IF session = NoSession
                                THEN "done" ELSE "continueGetDocument",
                         !.op = "continueSession",
                         !.project = projectName,
                         !.session = session,
                         !.existing = IF session = NoSession THEN NoDoc
                                      ELSE sessions[session].documentId]]
        /\ UNCHANGED <<authVars, now, naming, result, envVars>>

\* getDocument(session.documentId) resolved: suspend on the continuation marker
SvcContinueGetDocumentOk(c) ==
    /\ call[c].pc = "continueGetDocument"
    /\ Resolves(call[c].existing)
    /\ call' = [call EXCEPT ![c].pc = "marker",
                            ![c].resolved = TRUE,
                            ![c].document = call[c].existing,
                            ![c].docCalls = @ + 1]
    /\ UNCHANGED <<authVars, now, naming, smVars, result, envVars>>

\* addContinuationMarker succeeded: continueSession returns
SvcAddContinuationMarkerOk(c) ==
    /\ call[c].pc = "marker"
    /\ Resolves(call[c].document)
    /\ call' = [call EXCEPT ![c].pc = "done", ![c].docCalls = @ + 1]
    /\ UNCHANGED <<authVars, now, naming, smVars, result, envVars>>

\* getDocument or addContinuationMarker threw inside the try block: the catch
\* ends the current session and throws
SvcContinueFails(c) ==
    /\ call[c].pc \in {"continueGetDocument", "marker"}
    /\ endCurrentSession
    /\ call' = [call EXCEPT ![c].pc = "done",
                            ![c].error = ErrDocumentGone,
                            ![c].docCalls = @ + 1]
    /\ UNCHANGED <<authVars, now, naming, result, envVars>>

LogOps == {"logDecision", "logActivity", "saveConversation"}

\* faulty variant: the active session is not looked at
LogEntryNoCheck(current) == "append"
\* if (!currentSession) throw new Error('No active session. Start a session first.')
LogEntry(current) == IF current = NoSession THEN "done" ELSE "append"

\* faulty variant: the document of the session started last
LogTargetLatest(current) ==
    IF current = NoSession THEN NoDoc ELSE sessions[Len(sessions)].documentId

\* documentId: currentSession.documentId
LogTarget(current) ==
    IF current = NoSession THEN NoDoc ELSE sessions[current].documentId

\* logDecision / logActivity / saveConversation: throw without an active
\* session, else suspend on appendContent to the session's document
SvcLog(c, op) ==
    /\ call[c].pc = "idle"
    /\ call' = [call EXCEPT ![c] =
                  [IdleCall EXCEPT
                     !.pc = LogEntry(getCurrentSession),
                     !.op = op,
                     !.session = getCurrentSession,
                     !.document = LogTarget(getCurrentSession),
                     !.error = IF LogEntry(getCurrentSession) = "done"
                               THEN ErrNoActiveSession ELSE ""]]
    /\ UNCHANGED <<authVars, now, naming, smVars, result, envVars>>

\* appendContent succeeded: the log call returns
SvcAppendContentOk(c) ==
    /\ call[c].pc = "append"
    /\ Resolves(call[c].document)
    /\ call' = [call EXCEPT ![c].pc = "done", ![c].docCalls = @ + 1]
    /\ UNCHANGED <<authVars, now, naming, smVars, result, envVars>>

\* handleLogDecision / handleLogActivity / handleSaveConversation: the
\* handler answers with a text, or rethrows and the request handler wraps the
\* error in an McpError for the caller
LogReply(error) ==
    IF error = "" \/ error = ErrNoActiveSession THEN "content" ELSE "McpError"

\* faulty variant: the session is ended before the error is thrown
SvcCollaboratorFailsEnding(c) ==
    /\ call[c].pc \in {"createDocument", "template", "header", "sessionEnd", "append"}
    /\ endCurrentSession
    /\ call' = [call EXCEPT ![c].pc = "done",
                            ![c].error = "CollaboratorError",
                            ![c].docCalls = @ + 1]
    /\ UNCHANGED <<authVars, now, naming, result, envVars>>

\* a collaborator call outside a try block threw: the service call throws
SvcCollaboratorFails(c) ==
    /\ call[c].pc \in {"createDocument", "template", "header", "sessionEnd", "append"}
    /\ call' = [call EXCEPT ![c].pc = "done",
                            ![c].error = "CollaboratorError",
                            ![c].docCalls = @ + 1]
    /\ UNCHANGED <<authVars, now, naming, smVars, result, envVars>>

\* faulty variant: the active session is not checked
EndEntryNoCheck(current) == "sessionEnd"
\* if (!currentSession) throw new Error('No active session to end')
EndEntry(current) == IF current = NoSession THEN "done" ELSE "sessionEnd"

\* endSession: throws without an active session, else suspends on addSessionEnd
SvcEndSession(c) ==
    /\ call[c].pc = "idle"
    /\ call' = [call EXCEPT ![c] =
                  [IdleCall EXCEPT
                     !.pc = EndEntry(getCurrentSession),
                     !.op = "endSession",
                     !.session = getCurrentSession,
                     !.document = IF getCurrentSession = NoSession THEN NoDoc
                                  ELSE sessions[getCurrentSession].documentId,
                     !.error = IF EndEntry(getCurrentSession) = "done"
                               THEN "NoActiveSession" ELSE ""]]
    /\ UNCHANGED <<authVars, now, naming, smVars, result, envVars>>

\* addSessionEnd succeeded: sessionManager.endCurrentSession(), return
SvcAddSessionEndOk(c) ==
    /\ call[c].pc = "sessionEnd"
    /\ Resolves(call[c].document)
    /\ endCurrentSession
    /\ call' = [call EXCEPT ![c].pc = "done", ![c].docCalls = @ + 1]
    /\ UNCHANGED <<authVars, now, naming, result, envVars>>

\* the handler has answered the tool invocation
Return(c) ==
    /\ call[c].pc = "done"
    /\ call' = [call EXCEPT ![c] = IdleCall]
    /\ UNCHANGED <<authVars, now, naming, smVars, result, envVars>>

\* one tool invocation at a time (the single-caller assumption)
SvcNext ==
    \/ Tick
    \/ \E d \in DocIds : DeleteDocument(d)
    \/ /\ NoCallInFlight
       /\ \E c \in Callers, p \in Projects, o \in Objectives, t \in Templates :
              SvcStartSession(c, p, o, t)
    \/ /\ NoCallInFlight
       /\ \E c \in Callers : SvcEndSession(c)
    \/ \E c \in Callers : SvcStartGetDocumentOk(c)
    \/ \E c \in Callers : SvcStartGetDocumentFail(c)
    \/ \E c \in Callers : SvcCreateDocumentOk(c)
    \/ \E c \in Callers : SvcAppendTemplateOk(c)
    \/ \E c \in Callers : SvcAddSessionHeaderOk(c)
    \/ \E c \in Callers : SvcCollaboratorFails(c)
    \/ \E c \in Callers : SvcAddSessionEndOk(c)
    \/ /\ NoCallInFlight
       /\ \E c \in Callers, p \in Projects \cup {NoProject} : SvcContinueSession(c, p)
    \/ \E c \in Callers : SvcContinueGetDocumentOk(c)
    \/ \E c \in Callers : SvcAddContinuationMarkerOk(c)
    \/ \E c \in Callers : SvcContinueFails(c)
    \/ /\ NoCallInFlight
       /\ \E c \in Callers, op \in LogOps : SvcLog(c, op)
    \/ \E c \in Callers : SvcAppendContentOk(c)
    \/ \E c \in Callers : Return(c)

SvcSpec == Init /\ [][SvcNext]_vars

\* ----------------------------------------- overlapping tool invocations
\* Each tool request runs in its own asynchronous handler, so a second tool
\* invocation can start while the first is suspended on the collaborator.

SvcRaceCallers == {1, 2}

SvcRaceInit ==
    /\ now = 0
    /\ sessions = <<>>
    /\ projectSessions = [p \in Projects |-> <<>>]
    /\ currentSession = NoSession
    /\ todaysDocuments = [p \in Projects |-> NoDoc]
    /\ result = NoResult
    /\ docs = {}
    /\ nextDoc = 0
    /\ call = [c \in SvcRaceCallers |-> IdleCall]
    /\ credentialsFile = InstalledFile
    /\ tokenFile = AbsentFile
    /\ oauth2Client = NoClient
    /\ docsApi = FALSE
    /\ issued = 0
    /\ acall = [c \in AuthCallers |-> IdleAuthCall]
    /\ naming = NoNaming

SvcRaceNext ==
    \/ Tick
    \/ \E c \in SvcRaceCallers, p \in Projects, o \in Objectives, t \in Templates :
           SvcStartSession(c, p, o, t)
    \/ \E c \in SvcRaceCallers : SvcEndSession(c)
    \/ \E c \in SvcRaceCallers, p \in Projects \cup {NoProject} : SvcContinueSession(c, p)
    \/ \E c \in SvcRaceCallers : SvcStartGetDocumentOk(c)
    \/ \E c \in SvcRaceCallers : SvcStartGetDocumentFail(c)
    \/ \E c \in SvcRaceCallers : SvcCreateDocumentOk(c)
    \/ \E c \in SvcRaceCallers : SvcAppendTemplateOk(c)
    \/ \E c \in SvcRaceCallers : SvcAddSessionHeaderOk(c)
    \/ \E c \in SvcRaceCallers : SvcCollaboratorFails(c)
    \/ \E c \in SvcRaceCallers : SvcAddSessionEndOk(c)
    \/ \E c \in SvcRaceCallers : SvcContinueGetDocumentOk(c)
    \/ \E c \in SvcRaceCallers : SvcAddContinuationMarkerOk(c)
    \/ \E c \in SvcRaceCallers : SvcContinueFails(c)
    \/ \E c \in SvcRaceCallers : Return(c)

SvcRaceSpec == SvcRaceInit /\ [][SvcRaceNext]_vars


\* ---------------------------------------------------- specifications

Next ==
    \/ Tick
    \/ \E p \in Projects, o \in Objectives, t \in Templates : SMStartSession(p, o, t)
    \/ \E p \in Projects \cup {NoProject} : SMContinueSession(p)
    \/ SMEndCurrentSession
    \/ \E sid \in 1 .. MaxSessions + 1, d \in GivenDocIds : SMSetDocumentId(sid, d)

Spec == Init /\ [][Next]_vars

IndexNext ==
    \/ NextDay
    \/ \E p \in Projects, o \in Objectives, t \in Templates : SMStartSession(p, o, t)
    \/ \E p \in Projects \cup {NoProject} : SMContinueSession(p)
    \/ SMEndCurrentSession
    \/ \E sid \in 1 .. MaxSessions + 1, d \in GivenDocIds : IdxSetDocumentId(sid, d)

IndexSpec == Init /\ [][IndexNext]_vars

\* ================================================= GoogleAuth: operations

MaxIssued == 2          \* access tokens the authorization service issues

AuthOps == {"initialize", "getAuthenticatedClient", "handleAuthCode",
            "clearTokens", "clientInitialize", "documentOperation", "tool"}
AuthCodes == {"", "code"}           \* handleAuthCode(code): empty or not

\* faulty variant: a token is still good at the instant of its expiry
isTokenExpiredStrict(tokens) ==
    IF tokens.expiry_date = Undefined \/ tokens.expiry_date = 0
    THEN TRUE
    ELSE now > tokens.expiry_date

\* isTokenExpired(tokens): !tokens.expiry_date, else Date.now() >= expiry_date
isTokenExpired(tokens) ==
    IF tokens.expiry_date = Undefined \/ tokens.expiry_date = 0
    THEN TRUE
    ELSE now >= tokens.expiry_date

\* isAuthenticated(): a client, an access token, and the token not expired
isAuthenticated ==
    /\ oauth2Client.exists
    /\ oauth2Client.credentials.access_token # NoToken
    /\ ~isTokenExpired(oauth2Client.credentials)

\* the token set the remote answers with: a new access token, the refresh
\* token given, expiring a token lifetime from now
IssuedTokens(refreshToken) ==
    [ access_token  |-> StoredAccessToken + issued + 1,
      refresh_token |-> refreshToken,
      expiry_date   |-> now + TokenLifetime ]

\* faulty variant: nothing is written
WrittenFileStale(tokens) == tokenFile

\* saveTokens: what the token file holds after writeFile succeeded
WrittenFile(tokens) == [kind |-> "tokens", tokens |-> TokenDataSchema(tokens)]

\* a writeFile that failed wrote nothing, or wrote a part of the text
FailedWrites == {tokenFile, [kind |-> "notJson", tokens |-> EmptyCredentials]}

Snapshot == [credentials |-> oauth2Client.credentials, file |-> tokenFile]

NoAuthCallInFlight == \A c \in AuthCallers : acall[c].pc = "idle"

\* where a method starts
EntryPc(op) ==
    CASE op \in {"initialize", "clientInitialize", "tool"} -> "readCredentials"
      [] op = "getAuthenticatedClient" -> "getAuthenticatedClient"
      [] op = "handleAuthCode" -> "handleAuthCode"
      [] op = "clearTokens" -> "unlink"
      [] OTHER -> "ensureAuthenticated"

\* a caller invokes a method of GoogleAuth or of GoogleDocsClient, or a tool
AuthBegin(c, op, code) ==
    /\ acall[c].pc = "idle"
    /\ issued < MaxIssued
    /\ acall' = [acall EXCEPT ![c] =
                    [IdleAuthCall EXCEPT !.pc = EntryPc(op), !.op = op, !.code = code,
                                         !.hadClient = oauth2Client.exists]]
    /\ UNCHANGED <<now, naming, smVars, result, envVars, call,
                   credentialsFile, tokenFile, oauth2Client, docsApi, issued>>

\* GoogleAuth.initialize() returned: GoogleDocsClient.initialize() goes on
\* to getAuthenticatedClient()
InitializeReturns(rec) ==
    [rec EXCEPT !.initialized = "ok",
                !.pc = IF rec.op = "initialize" THEN "done"
                       ELSE "getAuthenticatedClient"]

\* initialize(): the credentials file is read and the client constructed
ReadCredentials(c) ==
    /\ acall[c].pc = "readCredentials"
    /\ IF CredentialsLoad(credentialsFile)
       THEN /\ oauth2Client' = [exists |-> TRUE,
                                config |-> CredentialsOf(credentialsFile.content),
                                credentials |-> EmptyCredentials]
            /\ acall' = [acall EXCEPT ![c].pc = "readTokens",
                                      ![c].read = credentialsFile]
       ELSE /\ acall' = [acall EXCEPT ![c].pc = "done",
                                      ![c].read = credentialsFile,
                                      ![c].initialized = "error",
                                      ![c].error = ErrInitialize]
            /\ UNCHANGED oauth2Client
    /\ UNCHANGED <<now, naming, smVars, result, envVars, call,
                   credentialsFile, tokenFile, docsApi, issued>>

\* loadTokens: the line logged by the catch for each kind of failure
LoadLog(kind) ==
    IF kind = "badSchema" THEN LogInvalidFormat ELSE LogNoValidTokens

\* loadTokens: the token file is read; every failure is caught and logged
ReadTokens(c) ==
    LET rec == acall[c]
        validatedTokens == TokenDataSchema(tokenFile.tokens)
    IN  /\ rec.pc = "readTokens"
        /\ IF tokenFile.kind = "tokens"
           THEN /\ oauth2Client' = [oauth2Client EXCEPT !.credentials = validatedTokens]
                /\ acall' = [acall EXCEPT ![c] =
                      IF isTokenExpired(validatedTokens)
                      THEN [rec EXCEPT !.loaded = "tokens",
                                       !.pc = "refreshAccessToken",
                                       !.via = "loadTokens",
                                       !.update = "none",
                                       !.before = [credentials |-> validatedTokens,
                                                   file |-> tokenFile]]
                      ELSE InitializeReturns([rec EXCEPT !.loaded = "tokens"])]
           ELSE /\ acall' = [acall EXCEPT ![c] =
                      InitializeReturns([rec EXCEPT !.loaded = tokenFile.kind,
                                                    !.log = LoadLog(tokenFile.kind)])]
                /\ UNCHANGED oauth2Client
        /\ UNCHANGED <<now, naming, smVars, result, envVars, call,
                       credentialsFile, tokenFile, docsApi, issued>>

\* refreshTokens() threw: loadTokens catches and logs, getAuthenticatedClient
\* lets the error through
RefreshTokensThrows(rec) ==
    LET failed == [rec EXCEPT !.update = "failed",
                              !.failedRefreshes = @ + 1]
    IN  IF rec.via = "loadTokens"
        THEN InitializeReturns([failed EXCEPT !.loadRefresh = "failed",
                                              !.log = LogNoValidTokens])
        ELSE [failed EXCEPT !.pc = "done", !.error = ErrRefreshFailed]

\* getAuthenticatedClient() returned to its caller
GetClientReturns(rec) ==
    [rec EXCEPT !.pc = IF rec.op = "getAuthenticatedClient" THEN "done"
                       ELSE "docsApi"]

\* faulty variant: credentials that are still valid are kept
setCredentialsUnlessValid(client, tokens) ==
    IF isTokenExpired(client.credentials)
    THEN [client EXCEPT !.credentials = tokens]
    ELSE client

\* oauth2Client.setCredentials(tokens)
setCredentials(client, tokens) == [client EXCEPT !.credentials = tokens]

\* refreshTokens: refreshAccessToken() answered; setCredentials(validatedTokens)
RefreshAccessTokenOk(c) ==
    LET rec == acall[c]
        validatedTokens ==
            TokenDataSchema(IssuedTokens(oauth2Client.credentials.refresh_token))
    IN  /\ rec.pc = "refreshAccessToken"
        /\ oauth2Client.credentials.refresh_token # NoToken
        /\ oauth2Client' = setCredentials(oauth2Client, validatedTokens)
        /\ issued' = issued + 1
        /\ acall' = [acall EXCEPT ![c] =
              [rec EXCEPT !.pc = "saveTokens",
                          !.tokens = validatedTokens,
                          !.answered = TRUE,
                          !.refreshCalls = @ + 1,
                          !.networkCalls = @ + 1]]
        /\ UNCHANGED <<now, naming, smVars, result, envVars, call,
                       credentialsFile, tokenFile, docsApi>>

\* refreshTokens: refreshAccessToken() threw: no refresh token is set (no
\* request is sent) or the remote rejected the request
RefreshAccessTokenFails(c) ==
    LET rec == acall[c]
        sent == IF oauth2Client.credentials.refresh_token # NoToken THEN 1 ELSE 0
    IN  /\ rec.pc = "refreshAccessToken"
        /\ acall' = [acall EXCEPT ![c] =
              RefreshTokensThrows([rec EXCEPT !.answered = FALSE,
                                              !.refreshCalls = @ + sent,
                                              !.networkCalls = @ + sent])]
        /\ UNCHANGED <<now, naming, smVars, result, envVars, call,
                       credentialsFile, tokenFile, oauth2Client, docsApi, issued>>

\* saveTokens: mkdir and writeFile succeeded; refreshTokens / handleAuthCode
\* returns
SaveTokensOk(c) ==
    LET rec == acall[c]
        saved == [rec EXCEPT !.update = "ok"]
    IN  /\ rec.pc = "saveTokens"
        /\ tokenFile' = WrittenFile(rec.tokens)
        /\ acall' = [acall EXCEPT ![c] =
              CASE rec.via = "loadTokens" ->
                       InitializeReturns([saved EXCEPT !.loadRefresh = "ok"])
                [] rec.via = "getAuthenticatedClient" -> GetClientReturns(saved)
                [] OTHER -> [saved EXCEPT !.pc = "done"]]
        /\ UNCHANGED <<now, naming, smVars, result, envVars, call,
                       credentialsFile, oauth2Client, docsApi, issued>>

\* saveTokens: mkdir or writeFile failed; the catch of refreshTokens /
\* handleAuthCode rethrows
SaveTokensFails(c) ==
    LET rec == acall[c]
    IN  /\ rec.pc = "saveTokens"
        /\ tokenFile' \in FailedWrites
        /\ acall' = [acall EXCEPT ![c] =
              IF rec.via = "handleAuthCode"
              THEN [rec EXCEPT !.pc = "done", !.update = "failed",
                               !.error = ErrExchange]
              ELSE RefreshTokensThrows(rec)]
        /\ UNCHANGED <<now, naming, smVars, result, envVars, call,
                       credentialsFile, oauth2Client, docsApi, issued>>

\* faulty variant: the access token is not looked at
GetClientBranchNoAccessCheck(client) ==
    IF ~client.exists THEN "noClient"
    ELSE IF isTokenExpired(client.credentials) THEN "refresh"
    ELSE "return"

\* faulty variant: an expired token is handed out as it is
GetClientBranchNoRefresh(client) ==
    IF ~client.exists THEN "noClient"
    ELSE IF client.credentials.access_token = NoToken THEN "noAccessToken"
    ELSE "return"

\* getAuthenticatedClient: the checks before the first await
GetClientBranch(client) ==
    IF ~client.exists THEN "noClient"
    ELSE IF client.credentials.access_token = NoToken THEN "noAccessToken"
    ELSE IF isTokenExpired(client.credentials) THEN "refresh"
    ELSE "return"

\* getAuthenticatedClient(): throws, starts refreshTokens(), or returns
GetAuthenticatedClient(c) ==
    LET rec == acall[c]
        branch == GetClientBranch(oauth2Client)
        seen == [rec EXCEPT !.entry = oauth2Client.credentials,
                            !.entryExpired = isTokenExpired(oauth2Client.credentials)]
    IN  /\ rec.pc = "getAuthenticatedClient"
        /\ acall' = [acall EXCEPT ![c] =
              CASE branch = "noClient" ->
                       [seen EXCEPT !.pc = "done", !.error = ErrNoClient]
                [] branch = "noAccessToken" ->
                       [seen EXCEPT !.pc = "done", !.error = ErrNoAccessToken]
                [] branch = "refresh" ->
                       [seen EXCEPT !.pc = "refreshAccessToken",
                                    !.via = "getAuthenticatedClient",
                                    !.update = "none",
                                    !.before = Snapshot]
                [] OTHER -> GetClientReturns(seen)]
        /\ UNCHANGED <<now, naming, smVars, result, envVars, call,
                       credentialsFile, tokenFile, oauth2Client, docsApi, issued>>

\* GoogleDocsClient.initialize: docsApi = google.docs(authClient); a tool goes
\* on to its document operation
SetDocsApi(c) ==
    /\ acall[c].pc = "docsApi"
    /\ docsApi' = TRUE
    /\ acall' = [acall EXCEPT ![c].pc = IF acall[c].op = "tool"
                                        THEN "ensureAuthenticated" ELSE "done"]
    /\ UNCHANGED <<now, naming, smVars, result, envVars, call,
                   credentialsFile, tokenFile, oauth2Client, issued>>

\* ensureAuthenticated: what isAuthenticated() sees
Gate ==
    IF ~oauth2Client.exists THEN "noClient"
    ELSE IF oauth2Client.credentials.access_token = NoToken THEN "noAccessToken"
    ELSE IF isTokenExpired(oauth2Client.credentials) THEN "expired"
    ELSE "authenticated"

\* createDocument / getDocument / appendContent: ensureAuthenticated().  When
\* isAuthenticated() holds and docsApi is null, getAuthenticatedClient()
\* returns without an await and docsApi is set.
EnsureAuthenticated(c) ==
    LET rec == acall[c]
    IN  /\ rec.pc = "ensureAuthenticated"
        /\ IF isAuthenticated
           THEN /\ docsApi' = TRUE
                /\ acall' = [acall EXCEPT ![c].pc = "done",
                                          ![c].ensured = Gate]
           ELSE /\ UNCHANGED docsApi
                /\ acall' = [acall EXCEPT ![c].pc = "done",
                                          ![c].ensured = Gate,
                                          ![c].error = IF oauth2Client.exists
                                                       THEN ErrAuthRequired
                                                       ELSE ErrNoClient]
        /\ UNCHANGED <<now, naming, smVars, result, envVars, call,
                       credentialsFile, tokenFile, oauth2Client, issued>>

\* handleAuthCode(code): the checks before getToken
HandleAuthCode(c) ==
    LET rec == acall[c]
        entered == [rec EXCEPT !.before = Snapshot]
    IN  /\ rec.pc = "handleAuthCode"
        /\ acall' = [acall EXCEPT ![c] =
              IF ~oauth2Client.exists
              THEN [entered EXCEPT !.pc = "done", !.update = "failed",
                                   !.error = ErrNoClient]
              ELSE IF rec.code = ""
              THEN [entered EXCEPT !.pc = "done", !.update = "failed",
                                   !.error = ErrCodeFormat]
              ELSE [entered EXCEPT !.pc = "getToken", !.via = "handleAuthCode"]]
        /\ UNCHANGED <<now, naming, smVars, result, envVars, call,
                       credentialsFile, tokenFile, oauth2Client, docsApi, issued>>

\* handleAuthCode: getToken(code) answered; setCredentials(validatedTokens)
GetTokenOk(c) ==
    LET rec == acall[c]
        validatedTokens == TokenDataSchema(IssuedTokens(RefreshToken))
    IN  /\ rec.pc = "getToken"
        /\ oauth2Client' = [oauth2Client EXCEPT !.credentials = validatedTokens]
        /\ issued' = issued + 1
        /\ acall' = [acall EXCEPT ![c] =
              [rec EXCEPT !.pc = "saveTokens",
                          !.tokens = validatedTokens,
                          !.answered = TRUE,
                          !.networkCalls = @ + 1]]
        /\ UNCHANGED <<now, naming, smVars, result, envVars, call,
                       credentialsFile, tokenFile, docsApi>>

\* handleAuthCode: the remote rejected the code
GetTokenFails(c) ==
    /\ acall[c].pc = "getToken"
    /\ acall' = [acall EXCEPT ![c].pc = "done",
                              ![c].update = "failed",
                              ![c].networkCalls = @ + 1,
                              ![c].error = ErrExchange]
    /\ UNCHANGED <<now, naming, smVars, result, envVars, call,
                   credentialsFile, tokenFile, oauth2Client, docsApi, issued>>

\* handleAuthCode: the answer of getToken(code) fails TokenDataSchema; the
\* catch reports every ZodError as a malformed code
GetTokenMalformed(c) ==
    /\ acall[c].pc = "getToken"
    /\ acall' = [acall EXCEPT ![c].pc = "done",
                              ![c].update = "failed",
                              ![c].answered = TRUE,
                              ![c].networkCalls = @ + 1,
                              ![c].error = ErrCodeFormat]
    /\ UNCHANGED <<now, naming, smVars, result, envVars, call,
                   credentialsFile, tokenFile, oauth2Client, docsApi, issued>>

\* fs.unlink(TOKEN_PATH): rejected with ENOENT when there is no file
UnlinkOutcome(file) == IF file.kind = "absent" THEN "ENOENT" ELSE "ok"

\* faulty variant: the rejection of unlink is thrown on
ClearTokensErrorRethrow(outcome) == IF outcome = "ok" THEN "" ELSE outcome

\* clearTokens: the catch swallows every rejection
ClearTokensError(outcome) == ""

\* clearTokens: the file is unlinked and then the credentials are emptied;
\* when unlink is rejected the catch skips setCredentials({})
ClearedState(file, client) ==
    IF UnlinkOutcome(file) = "ok"
    THEN [file |-> AbsentFile,
          client |-> IF client.exists
                     THEN [client EXCEPT !.credentials = EmptyCredentials]
                     ELSE client]
    ELSE [file |-> file, client |-> client]

\* clearTokens()
ClearTokens(c) ==
    LET cleared == ClearedState(tokenFile, oauth2Client)
    IN  /\ acall[c].pc = "unlink"
        /\ tokenFile' = cleared.file
        /\ oauth2Client' = cleared.client
        /\ acall' = [acall EXCEPT ![c].pc = "done",
                                  ![c].before = Snapshot,
                                  ![c].error = ClearTokensError(UnlinkOutcome(tokenFile))]
        /\ UNCHANGED <<now, naming, smVars, result, envVars, call,
                       credentialsFile, docsApi, issued>>

\* the caller has the outcome
AuthReturn(c) ==
    /\ acall[c].pc = "done"
    /\ acall' = [acall EXCEPT ![c] = IdleAuthCall]
    /\ UNCHANGED <<now, naming, smVars, result, envVars, call,
                   credentialsFile, tokenFile, oauth2Client, docsApi, issued>>

\* the server starts with whatever the two files hold
AuthInit ==
    /\ now = 0
    /\ sessions = <<>>
    /\ projectSessions = [p \in Projects |-> <<>>]
    /\ currentSession = NoSession
    /\ todaysDocuments = [p \in Projects |-> NoDoc]
    /\ result = NoResult
    /\ docs = {}
    /\ nextDoc = 0
    /\ call = [c \in Callers |-> IdleCall]
    /\ credentialsFile \in CredentialsFiles
    /\ tokenFile \in TokenFiles
    /\ oauth2Client = NoClient
    /\ docsApi = FALSE
    /\ issued = 0
    /\ acall = [c \in AuthCallers |-> IdleAuthCall]
    /\ naming = NoNaming

\* one authentication call at a time
AuthNext ==
    \/ Tick
    \/ /\ NoAuthCallInFlight
       /\ \E c \in AuthCallers, op \in AuthOps, code \in AuthCodes :
              /\ (op # "handleAuthCode" => code = "")
              /\ AuthBegin(c, op, code)
    \/ \E c \in AuthCallers : ReadCredentials(c)
    \/ \E c \in AuthCallers : ReadTokens(c)
    \/ \E c \in AuthCallers : RefreshAccessTokenOk(c)
    \/ \E c \in AuthCallers : RefreshAccessTokenFails(c)
    \/ \E c \in AuthCallers : SaveTokensOk(c)
    \/ \E c \in AuthCallers : SaveTokensFails(c)
    \/ \E c \in AuthCallers : GetAuthenticatedClient(c)
    \/ \E c \in AuthCallers : SetDocsApi(c)
    \/ \E c \in AuthCallers : EnsureAuthenticated(c)
    \/ \E c \in AuthCallers : HandleAuthCode(c)
    \/ \E c \in AuthCallers : GetTokenOk(c)
    \/ \E c \in AuthCallers : GetTokenFails(c)
    \/ \E c \in AuthCallers : GetTokenMalformed(c)
    \/ \E c \in AuthCallers : ClearTokens(c)
    \/ \E c \in AuthCallers : AuthReturn(c)

AuthSpec == AuthInit /\ [][AuthNext]_vars

\* ------------------------------------------- overlapping client requests
\* getAuthenticatedClient() called again while earlier calls are suspended in
\* refreshTokens().  initialize() replaces the client object, so it runs only
\* with no other call in flight.

RaceCallers == {1, 2}

RaceInit ==
    /\ now = 0
    /\ sessions = <<>>
    /\ projectSessions = [p \in Projects |-> <<>>]
    /\ currentSession = NoSession
    /\ todaysDocuments = [p \in Projects |-> NoDoc]
    /\ result = NoResult
    /\ docs = {}
    /\ nextDoc = 0
    /\ call = [c \in Callers |-> IdleCall]
    /\ credentialsFile = InstalledFile
    /\ tokenFile \in TokenFiles
    /\ oauth2Client = NoClient
    /\ docsApi = FALSE
    /\ issued = 0
    /\ acall = [c \in RaceCallers |-> IdleAuthCall]
    /\ naming = NoNaming

RaceNext ==
    \/ Tick
    \/ /\ \A c \in RaceCallers : acall[c].pc = "idle"
       /\ \E c \in RaceCallers : AuthBegin(c, "initialize", "")
    \/ /\ \A c \in RaceCallers : acall[c].op \in {"none", "getAuthenticatedClient"}
       /\ \E c \in RaceCallers : AuthBegin(c, "getAuthenticatedClient", "")
    \/ \E c \in RaceCallers : ReadCredentials(c)
    \/ \E c \in RaceCallers : ReadTokens(c)
    \/ \E c \in RaceCallers : GetAuthenticatedClient(c)
    \/ \E c \in RaceCallers : RefreshAccessTokenOk(c)
    \/ \E c \in RaceCallers : RefreshAccessTokenFails(c)
    \/ \E c \in RaceCallers : SaveTokensOk(c)
    \/ \E c \in RaceCallers : SaveTokensFails(c)
    \/ \E c \in RaceCallers : AuthReturn(c)

RaceSpec == RaceInit /\ [][RaceNext]_vars

\* ------------------------------------------------ the reset script
\* (scripts/auth-reset.ts) run while the server is up

\* removeTokens: the token file is unlinked; ENOENT is fine
RemoveTokens ==
    /\ tokenFile' = AbsentFile
    /\ tokenFile # AbsentFile
    /\ UNCHANGED <<now, naming, smVars, result, envVars, call,
                   credentialsFile, oauth2Client, docsApi, issued, acall>>

\* removeCredentials (--credentials): after the tokens, the credentials file
\* is unlinked
RemoveCredentials ==
    /\ tokenFile = AbsentFile
    /\ credentialsFile.kind # "absent"
    /\ credentialsFile' = [kind |-> "absent", content |-> NoCredential]
    /\ UNCHANGED <<now, naming, smVars, result, envVars, call,
                   tokenFile, oauth2Client, docsApi, issued, acall>>

AuthResetNext ==
    \/ AuthNext
    \/ RemoveTokens
    \/ RemoveCredentials

AuthResetSpec == AuthInit /\ [][AuthResetNext]_vars

\* ---------------------------------------- claims on the SessionManager
\* (checked under Spec)

\* every (project, position) of a history
Entries == { <<p, i>> \in Projects \X (1 .. MaxSessions + 1) :
               i <= Len(projectSessions[p]) }
EntryRef(e) == projectSessions[e[1]][e[2]]
ActiveEntries == { e \in Entries : sessions[EntryRef(e)].isActive }
InHistory(hists, ref, p) == \E i \in 1 .. Len(hists[p]) : hists[p][i] = ref

\* a direct SessionManager call of method op is the step taken
Called(op) == result'.seq # result.seq /\ result'.op = op

\* C1: in every reachable state of the SessionManager at most one session
\* across all project histories has isActive = true.
C1_AtMostOneActive == Cardinality(ActiveEntries) <= 1

\* two histories hold a session each, one of them active, after a continue
C1_Witness ==
    /\ result.op = "continueSession"
    /\ \A p \in Projects : Len(projectSessions[p]) > 0
    /\ Cardinality(ActiveEntries) = 1

\* C2: when startSession returns, the returned session is the current
\* session and is active, it is the only active session, and the session
\* that was current before the call is inactive and still in the history of
\* its own project.
C2_StartDeactivatesPrevious ==
    [][Called("startSession") =>
          LET new == result'.ret
              old == currentSession
          IN  /\ currentSession' = new
              /\ sessions'[new].isActive
              /\ sessions'[new].projectName = result'.project
              /\ \A ref \in 1 .. Len(sessions') :
                     sessions'[ref].isActive => ref = new
              /\ old # NoSession =>
                     /\ ~sessions'[old].isActive
                     /\ InHistory(projectSessions', old, sessions[old].projectName)
       ]_vars

\* start(A) then start(B): B's session is current, A's is in A's history
C2_Witness ==
    /\ result.op = "startSession"
    /\ result.project = "B"
    /\ currentSession = result.ret
    /\ Len(projectSessions["A"]) = 1
    /\ Len(projectSessions["B"]) = 1
    /\ ~sessions[projectSessions["A"][1]].isActive

\* C3: the today's-document lookup returns a recorded document id only if
\* the mapping was recorded on the current UTC day: once the clock passes
\* into the next day every lookup returns absent.
C3_LookupAbsentOnLaterDay ==
    [][DateOf(now') # DateOf(now) =>
          \A p \in Projects : getTodaysDocumentId(p)' = NoDoc]_vars

\* C5: continueSession(P) for a project with a history: when P's most
\* recent entry was started today it is returned and becomes the active
\* current session, unchanged but for isActive, and whatever was active is
\* deactivated; when it was started on an earlier day the call returns none.
C5_ContinueProjectDayCheck ==
    [][\A p \in Projects :
          (Called("continueSession") /\ result'.project = p
             /\ Len(projectSessions[p]) > 0) =>
          LET last == LastOf(projectSessions[p])
          IN  IF DateOf(sessions[last].startTime) = DateOf(now)
              THEN /\ result'.ret = last
                   /\ currentSession' = last
                   /\ sessions'[last] = [sessions[last] EXCEPT !.isActive = TRUE]
                   /\ sessions[last].projectName = p
                   /\ (currentSession # NoSession /\ currentSession # last) =>
                          ~sessions'[currentSession].isActive
              ELSE result'.ret = NoSession
       ]_vars

\* continue(A) on the day of A's last session while B's session was active
C5_Witness ==
    /\ result.op = "continueSession"
    /\ result.project = "A"
    /\ result.ret # NoSession
    /\ currentSession = result.ret
    /\ result.prev # NoSession
    /\ sessions[result.prev].projectName = "B"
    /\ ~sessions[result.prev].isActive

\* continue(A) on a later day than A's last session: none
C5_WitnessStale ==
    /\ result.op = "continueSession"
    /\ result.project = "A"
    /\ result.ret = NoSession
    /\ Len(projectSessions["A"]) > 0
    /\ DateOf(sessions[LastOf(projectSessions["A"])].startTime) < DateOf(now)

\* C6: continueSession() without a project, with a current session: when
\* it was started today it is returned and stays active and current; when
\* it was started on an earlier day the call returns none, the session is
\* deactivated and the slot is emptied.
C6_ContinueCurrentDayCheck ==
    [][(Called("continueSession") /\ result'.project = NoProject
          /\ currentSession # NoSession) =>
          LET cur == currentSession
          IN  IF DateOf(sessions[cur].startTime) = DateOf(now)
              THEN /\ result'.ret = cur
                   /\ currentSession' = cur
                   /\ sessions'[cur].isActive
              ELSE /\ result'.ret = NoSession
                   /\ currentSession' = NoSession
                   /\ ~sessions'[cur].isActive
       ]_vars

\* continue() found a current session of an earlier day and cleared it
C6_Witness ==
    /\ result.op = "continueSession"
    /\ result.project = NoProject
    /\ result.prev # NoSession
    /\ result.ret = NoSession
    /\ currentSession = NoSession
    /\ ~sessions[result.prev].isActive
    /\ DateOf(sessions[result.prev].startTime) < DateOf(now)

\* C9: a project's history is append-only: every step keeps the entries it
\* had in their positions; only startSession appends, exactly one entry at
\* the end of its project's history; continueSession creates no session.
C9_HistoryAppendOnly ==
    [][\A p \in Projects :
          LET h == projectSessions[p]
              h2 == projectSessions'[p]
          IN  /\ Len(h) <= Len(h2)
              /\ \A i \in 1 .. Len(h) :
                     /\ h2[i] = h[i]
                     /\ sessions'[h[i]].id = sessions[h[i]].id
              /\ IF Called("startSession") /\ result'.project = p
                 THEN /\ h2 = Append(h, result'.ret)
                      /\ result'.ret = Len(sessions) + 1
                 ELSE h2 = h
              /\ Called("continueSession") => Len(sessions') = Len(sessions)
       ]_vars

\* continue(A) reactivated the second of A's two entries and appended none
C9_Witness ==
    /\ result.op = "continueSession"
    /\ result.project = "A"
    /\ Len(projectSessions["A"]) = 2
    /\ result.ret = projectSessions["A"][2]
    /\ result.prev = NoSession

\* C10: the session startSession(P) creates has previousSessionId equal to
\* the id of the last entry P's history had before the call (none when the
\* history was empty), whatever that entry's day and active flag, and the
\* id belongs to no session of another project.
C10_PreviousSessionLink ==
    [][Called("startSession") =>
          LET p == result'.project
              h == projectSessions[p]
              new == sessions'[result'.ret]
          IN  /\ new.previousSessionId =
                     IF Len(h) = 0 THEN NoSession ELSE sessions[LastOf(h)].id
              /\ \A ref \in 1 .. Len(sessions) :
                     sessions[ref].id = new.previousSessionId =>
                         sessions[ref].projectName = p
       ]_vars

\* start(A) on a later day than A's previous session, which had been ended
C10_Witness ==
    /\ result.op = "startSession"
    /\ sessions[result.ret].previousSessionId # NoSession
    /\ result.prev = NoSession
    /\ \E ref \in 1 .. Len(sessions) :
           /\ sessions[ref].id = sessions[result.ret].previousSessionId
           /\ ~sessions[ref].isActive
           /\ DateOf(sessions[ref].startTime) < DateOf(sessions[result.ret].startTime)

\* ------------------------------------------------- claims on the service
\* (checked under SvcSpec)

\* a successful service-level startSession that has returned
StartReturned(c) ==
    call[c].op = "startSession" /\ call[c].pc = "done" /\ call[c].error = ""

\* what a successful service-level startSession returns
C4_StartOutcome ==
    \A c \in Callers : StartReturned(c) =>
        /\ call[c].existing = NoDoc =>
               call[c].isNewDocument /\ call[c].created = 1
        /\ (call[c].existing # NoDoc /\ call[c].resolved) =>
               /\ ~call[c].isNewDocument
               /\ call[c].document = call[c].existing
               /\ call[c].created = 0
        /\ call[c].document # NoDoc
        /\ getTodaysDocumentId(call[c].project) = call[c].document
        /\ sessions[call[c].session].documentId = call[c].document

\* the document id a service-level startSession works with is the index
\* entry of its project as it was when the call began
C4_Lookup ==
    \A c \in Callers :
        (call[c].pc = "idle" /\ call'[c].pc # "idle"
           /\ call'[c].op = "startSession") =>
        /\ call'[c].existing = todaysDocuments[call'[c].project]
        /\ (call'[c].pc = "getDocument") = (call'[c].existing # NoDoc)
        /\ (call'[c].pc = "createDocument") = (call'[c].existing = NoDoc)

\* C4: a successful service-level startSession for a project whose index
\* is empty returns isNewDocument = true and has created one document; one
\* that finds an index entry whose document resolves returns
\* isNewDocument = false with that document id and has created none; either
\* way the index entry of the project is the returned document afterwards,
\* so that the next start of the day finds it.
C4_SameDayDocumentReuse == []C4_StartOutcome /\ [][C4_Lookup]_vars

\* the second start of a project on the day of the first reused the document
C4_Witness ==
    \E c \in Callers :
        /\ StartReturned(c)
        /\ call[c].resolved
        /\ ~call[c].isNewDocument
        /\ call[c].created = 0
        /\ nextDoc = 1
        /\ Len(projectSessions[call[c].project]) = 2
        /\ \A i \in 1 .. 2 :
               DateOf(sessions[projectSessions[call[c].project][i]].startTime)
                   = DateOf(now)

\* C7: endSession invoked while no session is active fails at once with
\* the no-active-session error, has made no collaborator call and has
\* changed neither the histories, the index, the slot nor the documents;
\* that error is raised in no other situation.
C7_EndWithoutSessionFails ==
    [][\A c \in Callers :
          /\ (call[c].pc = "idle" /\ call'[c].pc # "idle"
                /\ call'[c].op = "endSession" /\ currentSession = NoSession) =>
                 /\ call'[c].pc = "done"
                 /\ call'[c].error = "NoActiveSession"
                 /\ call'[c].docCalls = 0
                 /\ UNCHANGED <<smVars, envVars>>
          /\ (call'[c].error = "NoActiveSession" /\ call[c].pc = "idle") =>
                 currentSession = NoSession
       ]_vars

\* endSession failed after an earlier session had been ended
C7_Witness ==
    \E c \in Callers :
        /\ call[c].op = "endSession"
        /\ call[c].pc = "done"
        /\ call[c].error = "NoActiveSession"
        /\ call[c].docCalls = 0
        /\ Len(sessions) > 0
        /\ currentSession = NoSession

\* C8: a successful endSession returns the session S that was active,
\* leaves S inactive and the slot empty, and leaves every history as it
\* was, S included.
C8_EndDeactivatesAndKeeps ==
    [][\A c \in Callers :
          (call[c].pc = "sessionEnd" /\ call'[c].pc = "done"
             /\ call'[c].error = "") =>
          LET S == call'[c].session
          IN  /\ S # NoSession
              /\ S = call[c].session
              /\ currentSession = S
              /\ sessions[S].isActive
              /\ ~sessions'[S].isActive
              /\ currentSession' = NoSession
              /\ projectSessions' = projectSessions
              /\ InHistory(projectSessions', S, sessions[S].projectName)
       ]_vars

\* endSession returned the second session of a project, now inactive
C8_Witness ==
    \E c \in Callers :
        /\ call[c].op = "endSession"
        /\ call[c].pc = "done"
        /\ call[c].error = ""
        /\ call[c].session # NoSession
        /\ ~sessions[call[c].session].isActive
        /\ currentSession = NoSession
        /\ \E p \in Projects :
               Len(projectSessions[p]) = 2 /\ projectSessions[p][2] = call[c].session

\* ------------------------------------------- claims on the token lifecycle
\* (checked under AuthSpec)

AuthDone(c, op) == acall[c].pc = "done" /\ acall[c].op = op

\* C11: isTokenExpired(t) is true exactly when t has no expiry or the current
\* instant is at or after the expiry (so it is true at now = expiry, and a
\* token with an access token but no expiry is expired); a refresh started by
\* getAuthenticatedClient was started on such a token.
C11_ExpiredExactly ==
    /\ \A t \in StoredTokens :
          isTokenExpired(t) <=>
              (IF t.expiry_date = Undefined THEN TRUE ELSE now >= t.expiry_date)
    /\ \A c \in AuthCallers :
          acall[c].via = "getAuthenticatedClient" =>
              \/ acall[c].entry.expiry_date = Undefined
              \/ now >= acall[c].entry.expiry_date

\* getAuthenticatedClient started a refresh at the very instant of expiry
C11_Witness ==
    \E c \in AuthCallers :
        /\ acall[c].pc = "refreshAccessToken"
        /\ acall[c].via = "getAuthenticatedClient"
        /\ acall[c].entry.access_token # NoToken
        /\ acall[c].entry.expiry_date = now
        /\ now > 0

C13_AbsentTokenFile ==
    \A c \in AuthCallers :
        /\ (acall[c].loaded = "absent" /\ acall[c].initialized = "ok") =>
               /\ oauth2Client.credentials.access_token = NoToken
               /\ ~isAuthenticated
        /\ (acall[c].loaded = "absent" /\ acall[c].pc = "done"
                /\ acall[c].op \in {"clientInitialize", "tool"}) =>
               /\ acall[c].error = ErrNoAccessToken
               /\ acall[c].refreshCalls = 0
               /\ acall[c].networkCalls = 0
        /\ (AuthDone(c, "getAuthenticatedClient") /\ oauth2Client.exists
                /\ acall[c].entry.access_token = NoToken) =>
               /\ acall[c].error = ErrNoAccessToken
               /\ acall[c].refreshCalls = 0
               /\ acall[c].networkCalls = 0

\* initialize found no token file and getAuthenticatedClient() then failed
C13_Witness ==
    \E c \in AuthCallers :
        /\ AuthDone(c, "clientInitialize")
        /\ acall[c].loaded = "absent"
        /\ acall[c].error = ErrNoAccessToken
        /\ tokenFile.kind = "absent"

\* C14: when refreshTokens() or handleAuthCode() returns successfully the
\* in-memory token set is the newly received one and the token file holds the
\* same token set; the memory was updated before the write started.
C14_UpdateThenWriteThenReturn ==
    \A c \in AuthCallers :
        /\ acall[c].pc = "saveTokens" =>
               /\ oauth2Client.credentials = acall[c].tokens
               /\ acall[c].tokens.access_token # acall[c].before.credentials.access_token
               /\ tokenFile = acall[c].before.file
               /\ acall[c].update # "ok"
        /\ acall[c].update = "ok" =>
               /\ oauth2Client.credentials = acall[c].tokens
               /\ tokenFile = [kind |-> "tokens", tokens |-> acall[c].tokens]
               /\ acall[c].tokens.access_token # acall[c].before.credentials.access_token

\* refreshTokens() returned successfully to getAuthenticatedClient()
C14_Witness ==
    \E c \in AuthCallers :
        /\ acall[c].update = "ok"
        /\ acall[c].via = "getAuthenticatedClient"
        /\ acall[c].before.file.kind = "tokens"
        /\ tokenFile # acall[c].before.file

\* C15: when refreshTokens() or handleAuthCode() fails, the in-memory token
\* set and the token file are exactly as they were before the call.
C15_FailureLeavesStateAsBefore ==
    \A c \in AuthCallers :
        acall[c].update = "failed" =>
            /\ oauth2Client.credentials = acall[c].before.credentials
            /\ tokenFile = acall[c].before.file

\* C16: when the refresh that GoogleAuth.initialize() attempts on an expired
\* stored token set fails, initialize() does not complete successfully.
C16_InitializeReportsFailedRefresh ==
    \A c \in AuthCallers :
        acall[c].loadRefresh = "failed" => acall[c].initialized # "ok"

\* C17: within one GoogleDocsClient.initialize(), after a refresh attempt has
\* failed no second refresh request is made.
C17_FailedRefreshNotRepeated ==
    \A c \in AuthCallers :
        (acall[c].op \in {"clientInitialize", "tool"} /\ acall[c].failedRefreshes >= 1) =>
            acall[c].refreshCalls <= 1

\* C18: whenever a tool invocation fails because no usable credential exists,
\* the error surfaced to the caller carries the authorization URL.
C18_AuthFailureCarriesUrl ==
    \A c \in AuthCallers :
        (AuthDone(c, "tool")
            /\ acall[c].error \in {ErrNoAccessToken, ErrRefreshFailed, ErrAuthRequired}) =>
            CarriesAuthUrl(acall[c].error)

\* C19: a document operation invoked while the in-memory access token is
\* expired and a refresh token is present does not fail with the
\* authentication-required error (it refreshes and proceeds).
C19_DocumentOperationRefreshes ==
    \A c \in AuthCallers :
        (acall[c].pc = "done" /\ acall[c].op \in {"documentOperation", "tool"}
            /\ acall[c].ensured = "expired"
            /\ oauth2Client.credentials.refresh_token # NoToken) =>
            acall[c].error # ErrAuthRequired

\* C20: loading the token file: an absent file is not an error, and a file
\* that exists but is not JSON or fails the token schema yields an error to
\* the caller of initialize().
C20_InvalidTokenFileIsError ==
    \A c \in AuthCallers :
        /\ (acall[c].loaded = "absent" /\ acall[c].op = "initialize"
                /\ acall[c].pc = "done") => acall[c].error = ""
        /\ acall[c].loaded \in {"notJson", "badSchema"} =>
               acall[c].initialized # "ok"

\* ------------------------------------ claims on the configuration files
\* (checked under AuthResetSpec)

\* what the claims call a usable credential file: JSON with client id, client
\* secret and at least one redirect target, flat or wrapped
Complete(body) ==
    body.client_id # "" /\ body.client_secret # "" /\ body.redirect_uris # <<>>
Usable(file) ==
    /\ file.kind = "json"
    /\ \/ file.content \in CredentialBodies /\ Complete(file.content)
       \/ \E b \in CredentialBodies : file.content = [installed |-> b] /\ Complete(b)

\* initialize() has read the credentials file: it goes on exactly when the
\* file is usable, then with the same Credential for the flat and the wrapped
\* shape, and otherwise it fails with the initialization error
C21_LoadOutcome(c) ==
    acall[c].read.kind # "none" =>
        IF Usable(acall[c].read)
        THEN /\ acall[c].initialized # "error"
             /\ oauth2Client.exists
             /\ oauth2Client.config = Credential
        ELSE /\ acall[c].initialized = "error"
             /\ acall[c].pc = "done"
             /\ acall[c].error = ErrInitialize

\* C21 as stated: credential loading succeeds with the same Credential for the
\* flat and the wrapped file and fails when the file is missing, not JSON or
\* lacks a required field; after such a failure isAuthenticated() is false.
C21_CredentialLoading ==
    \A c \in AuthCallers :
        /\ C21_LoadOutcome(c)
        /\ acall[c].initialized = "error" => ~isAuthenticated

\* C21 amended: the same outcomes; a failed initialize() creates no client and
\* leaves no authenticated state on a GoogleAuth that had no client, while the
\* client and credentials of an earlier successful initialize() stay in place.
C21_CredentialLoadingFirst ==
    \A c \in AuthCallers :
        /\ C21_LoadOutcome(c)
        /\ acall[c].initialized = "error" =>
               /\ oauth2Client.exists = acall[c].hadClient
               /\ ~acall[c].hadClient => ~isAuthenticated

\* initialize() failed on a wrapped file that lacks a redirect target
C21_Witness ==
    \E c \in AuthCallers :
        /\ acall[c].pc = "done"
        /\ acall[c].initialized = "error"
        /\ acall[c].read = [kind |-> "json",
                            content |-> [installed |->
                                [Credential EXCEPT !.redirect_uris = <<>>]]]
        /\ ~isAuthenticated

\* C22: handleAuthCode(code) with an empty code fails with the invalid-code
\* error, sends nothing to the remote and changes neither the in-memory token
\* set nor the token file; the exchange-failed error is reported when the
\* remote rejected the code and only then; the invalid-code error is reported
\* for nothing but the code's own format.
C22_AuthCodeErrors ==
    \A c \in AuthCallers :
        (acall[c].pc = "done" /\ acall[c].op = "handleAuthCode" /\ acall[c].hadClient) =>
            /\ acall[c].code = "" =>
                   /\ acall[c].error = ErrCodeFormat
                   /\ acall[c].networkCalls = 0
                   /\ oauth2Client.credentials = acall[c].before.credentials
                   /\ tokenFile = acall[c].before.file
            /\ acall[c].error = ErrExchange <=>
                   (acall[c].networkCalls = 1 /\ ~acall[c].answered)
            /\ acall[c].error = ErrCodeFormat => acall[c].code = ""

\* ------------------------------------------- claims on the token lifecycle
\* (checked under AuthSpec)

\* C23: clearTokens() completes without error whether or not the token file
\* exists, and a second clearTokens() leaves the token file and the in-memory
\* token state as the first one left them.
C23_ClearTokensIdempotent ==
    \A c \in AuthCallers :
        (acall[c].pc = "done" /\ acall[c].op = "clearTokens") =>
            /\ acall[c].error = ""
            /\ tokenFile = AbsentFile
            /\ ClearedState(tokenFile, oauth2Client) =
                   [file |-> tokenFile, client |-> oauth2Client]
            /\ acall[c].before.file.kind # "absent" =>
                   oauth2Client.credentials = EmptyCredentials
            /\ acall[c].before.file.kind = "absent" =>
                   oauth2Client.credentials = acall[c].before.credentials

\* clearTokens() completed on a token file that an earlier clearTokens() had
\* removed
C23_Witness ==
    \E c \in AuthCallers :
        /\ acall[c].pc = "done"
        /\ acall[c].op = "clearTokens"
        /\ acall[c].before.file.kind = "absent"
        /\ acall[c].hadClient
        /\ credentialsFile = InstalledFile
        /\ issued > 0

\* -------------------------------------------- claims on the document index
\* (checked under IndexSpec)

\* C24: a setDocumentId(sessionId, documentId) that repeats the call before it
\* leaves the document index, every project history and every session's
\* documentId as the first call left them.
C24_Repeats == Called("setDocumentId") /\ result'.repeat

C24_SetDocumentIdIdempotent == [][C24_Repeats => UNCHANGED smVars]_vars

\* a repeated setDocumentId for a session that is in a history
C24_Witness ==
    /\ result.op = "setDocumentId"
    /\ result.repeat
    /\ FindSession(result.sessionId) # NoSession
    /\ sessions[FindSession(result.sessionId)].documentId = result.documentId
    /\ Len(sessions) = MaxSessions

\* C25: startSession, continueSession and endCurrentSession leave the document
\* index unchanged; setDocumentId for a session id found in a history sets the
\* entry of that session's project to the given id and leaves every other
\* entry, and for an id found in no history changes nothing.
C25_Step ==
    /\ todaysDocuments' # todaysDocuments => Called("setDocumentId")
    /\ Called("setDocumentId") =>
           LET ref == FindSession(result'.sessionId)
           IN  IF ref = NoSession
               THEN UNCHANGED smVars
               ELSE todaysDocuments' =
                        [p \in Projects |->
                            IF p = sessions[ref].projectName
                            THEN result'.documentId
                            ELSE todaysDocuments[p]]

C25_IndexOnlyBySetDocumentId == [][C25_Step]_vars

\* setDocumentId has replaced the index entry that an earlier session of the
\* project had set to another document
C25_Witness ==
    /\ result.op = "setDocumentId"
    /\ FindSession(result.sessionId) # NoSession
    /\ sessions[FindSession(result.sessionId)].projectName = "B"
    /\ todaysDocuments["B"] = result.documentId
    /\ \E i \in 1 .. Len(projectSessions["B"]) :
           sessions[projectSessions["B"][i]].documentId \notin {NoDoc, result.documentId}

\* ------------------------------------- claims on the service and documents
\* (checked under SvcSpec)

\* getDocument on the document id correlated with the call's session or
\* project failed
GetDocumentFailed(c) ==
    /\ call[c].pc = "done"
    /\ ~call[c].resolved
    /\ \/ call[c].op = "startSession" /\ call[c].existing # NoDoc
       \/ call[c].op = "continueSession" /\ call[c].session # NoSession

\* C26 (as stated): whenever getDocument fails on the correlated document id,
\* in start as well as in continue, the call throws, no session is active
\* afterwards and the call has created no document.
C26_UnresolvedInvalidates ==
    \A c \in Callers :
        GetDocumentFailed(c) =>
            /\ call[c].error # ""
            /\ currentSession = NoSession
            /\ call[c].created = 0

\* C26 (amended): in continue a failed getDocument ends the session, throws
\* 'Session document no longer exists' and creates nothing; in start it makes
\* the service create a new document, and a start that then completes leaves
\* the new session active and linked, with the project's index entry, to the
\* new document.
C26_UnresolvedContinueInvalidates ==
    \A c \in Callers :
        /\ (GetDocumentFailed(c) /\ call[c].op = "continueSession") =>
               /\ call[c].error = ErrDocumentGone
               /\ currentSession = NoSession
               /\ ~sessions[call[c].session].isActive
               /\ call[c].created = 0
        /\ (GetDocumentFailed(c) /\ call[c].op = "startSession"
                /\ call[c].error = "") =>
               /\ call[c].created = 1
               /\ call[c].isNewDocument
               /\ call[c].document # call[c].existing
               /\ currentSession = call[c].session
               /\ sessions[call[c].session].isActive
               /\ sessions[call[c].session].documentId = call[c].document
               /\ todaysDocuments[call[c].project] = call[c].document

\* a start that found the project's document deleted and completed
C26_Witness ==
    \E c \in Callers :
        /\ GetDocumentFailed(c)
        /\ call[c].op = "startSession"
        /\ call[c].error = ""
        /\ call[c].existing \notin docs

\* C27: when a collaborator call fails during the service-level startSession,
\* the session the call started is in no project history.
C27_FailedStartLeavesRegistry ==
    \A c \in Callers :
        (call[c].pc = "done" /\ call[c].op = "startSession" /\ call[c].error # "") =>
            /\ \A p \in Projects : \A i \in 1 .. Len(projectSessions[p]) :
                   projectSessions[p][i] # call[c].session
            /\ currentSession # call[c].session

\* C28: logDecision, logActivity and saveConversation invoked while no
\* session is active throw the no-active-session error at once, call the
\* collaborator not at all and change no registry state; the handler answers
\* the caller with a text.
C28_Step ==
    \A c \in Callers :
        (call[c].pc = "idle" /\ call'[c].pc # "idle" /\ call'[c].op \in LogOps
             /\ currentSession = NoSession) =>
            /\ call'[c].pc = "done"
            /\ call'[c].error = ErrNoActiveSession
            /\ call'[c].docCalls = 0
            /\ UNCHANGED <<smVars, envVars>>
            /\ LogReply(call'[c].error) = "content"

C28_LogWithoutSessionFails == [][C28_Step]_vars

\* a log call refused after the only session was ended
C28_Witness ==
    \E c \in Callers :
        /\ call[c].pc = "done"
        /\ call[c].op \in LogOps
        /\ call[c].error = ErrNoActiveSession
        /\ Len(sessions) > 0
        /\ docs # {}

\* ----------------------------------------- claims on the document names
\* (checked under NameSpec)

\* C29: every generated document name has only characters of [a-z0-9-], at
\* most 50 of them, neither starts nor ends with a hyphen, and is the name
\* generated for its project, operator and date.
C29_DocumentNameSafe ==
    naming.done =>
        /\ \A i \in 1 .. Len(naming.name) :
               naming.name[i] \in LowerLetters \cup Digits \cup {"-"}
        /\ Len(naming.name) <= NameCap
        /\ naming.name[1] # "-"
        /\ naming.name[Len(naming.name)] # "-"
        /\ naming.name = DocumentNameText(naming.project, DateText(naming.date),
                                          getCurrentUsername(naming.git, naming.user))

\* ------------------------------------ claims on overlapping client requests
\* (checked under RaceSpec)

\* the call found credentials with an access token that had expired
FoundExpired(c) ==
    /\ acall[c].op = "getAuthenticatedClient"
    /\ acall[c].entry.access_token # NoToken
    /\ acall[c].entryExpired

\* C30: a getAuthenticatedClient() that finds the token set expired calls
\* refreshAccessToken() itself, also when another call is suspended in a
\* refresh or has completed one meanwhile; the answer to its request
\* replaces the in-memory credentials, and its save replaces the token file,
\* whatever another call has put there.
C30_OwnRefresh ==
    \A c \in RaceCallers :
        (acall[c].pc = "done" /\ FoundExpired(c)) =>
            /\ acall[c].update \in {"ok", "failed"}
            /\ acall[c].refreshCalls =
                   IF acall[c].entry.refresh_token # NoToken THEN 1 ELSE 0
            /\ acall[c].update = "ok" => acall[c].answered

C30_Step ==
    \A c \in RaceCallers :
        /\ (acall[c].pc = "refreshAccessToken" /\ acall'[c].pc = "saveTokens") =>
               /\ oauth2Client'.credentials = acall'[c].tokens
               /\ acall'[c].tokens.access_token = StoredAccessToken + issued'
               /\ issued' = issued + 1
        /\ (acall[c].pc = "saveTokens" /\ acall'[c].update = "ok") =>
               /\ tokenFile'.kind = "tokens"
               /\ tokenFile'.tokens = acall[c].tokens

C30_RefreshNotDeduplicated == []C30_OwnRefresh /\ [][C30_Step]_vars

\* two refreshes of the same expired token set are in flight
C30_Witness ==
    /\ \A c \in RaceCallers :
           /\ acall[c].pc = "refreshAccessToken"
           /\ FoundExpired(c)
    /\ acall[1].entry = acall[2].entry
    /\ oauth2Client.credentials = acall[1].entry

\* ------------------------------------------ claims on the session registry
\* (checked under Spec)

\* C31: a session has isActive = true exactly when it is the session in the
\* current-session slot, and the session in the slot is an entry of the
\* history of its own project.
C31_ActiveIffCurrent ==
    /\ \A ref \in 1 .. Len(sessions) :
           sessions[ref].isActive <=> currentSession = ref
    /\ currentSession # NoSession =>
           /\ currentSession \in 1 .. Len(sessions)
           /\ \E i \in 1 .. Len(projectSessions[sessions[currentSession].projectName]) :
                  projectSessions[sessions[currentSession].projectName][i] = currentSession

\* the first project's session is current again after a session of the other
\* project was started
C31_Witness ==
    /\ result.op = "continueSession"
    /\ currentSession # NoSession
    /\ currentSession < Len(sessions)
    /\ sessions[currentSession].isActive
    /\ ~sessions[Len(sessions)].isActive
    /\ sessions[Len(sessions)].projectName # sessions[currentSession].projectName

\* C32: continueSession(P) with a project P given returns no session of
\* another project; with no history for P it returns none.
C32_ContinueOwnProject ==
    (result.op = "continueSession" /\ result.project # NoProject) =>
        /\ result.ret # NoSession =>
               sessions[result.ret].projectName = result.project
        /\ Len(projectSessions[result.project]) = 0 => result.ret = NoSession

\* ------------------------------------- claims on the service and documents
\* (checked under SvcSpec)

\* C33: when a service-level startSession has returned, the active session's
\* documentId is non-empty and is the id of the returned document and the
\* index entry of the session's project; a log call appends to the document
\* of the session that is current, and that session's documentId changes in
\* no step outside a startSession.
C33_Linked ==
    \A c \in Callers :
        /\ (call[c].pc = "done" /\ call[c].op = "startSession" /\ call[c].error = "") =>
               /\ currentSession = call[c].session
               /\ sessions[currentSession].isActive
               /\ call[c].document # NoDoc
               /\ sessions[currentSession].documentId = call[c].document
               /\ todaysDocuments[sessions[currentSession].projectName] = call[c].document
        /\ (call[c].op \in LogOps /\ call[c].pc \in {"append", "done"}
                /\ call[c].error # ErrNoActiveSession) =>
               /\ currentSession = call[c].session
               /\ call[c].document = sessions[currentSession].documentId

C33_Step ==
    (/\ currentSession # NoSession
     /\ currentSession' = currentSession
     /\ \A c \in Callers : call[c].op # "startSession") =>
        sessions'[currentSession].documentId = sessions[currentSession].documentId

C33_LogsToSessionDocument == []C33_Linked /\ [][C33_Step]_vars

\* a log call has appended to the document of a session continued after a
\* session of another project, with another document, was started
C33_Witness ==
    \E c \in Callers :
        /\ call[c].op \in LogOps
        /\ call[c].pc = "done"
        /\ call[c].error = ""
        /\ call[c].document # NoDoc
        /\ call[c].session < Len(sessions)
        /\ sessions[Len(sessions)].documentId \notin {NoDoc, call[c].document}

\* --------------------------------- claims on overlapping tool invocations
\* (checked under SvcRaceSpec)

\* C34: when two service-level startSession calls for the same project on
\* the same day each looked up the index before the other had linked its
\* document, together they create at most one document and their sessions
\* end up with the same document id.
C34_OneDocumentPerDay ==
    \A c, d \in SvcRaceCallers :
        (/\ c # d
         /\ call[c].pc = "done" /\ call[d].pc = "done"
         /\ call[c].op = "startSession" /\ call[d].op = "startSession"
         /\ call[c].project = call[d].project
         /\ call[c].error = "" /\ call[d].error = ""
         /\ call[c].existing = NoDoc /\ call[d].existing = NoDoc
         /\ DateOf(sessions[call[c].session].startTime) =
                DateOf(sessions[call[d].session].startTime)) =>
            /\ call[c].created + call[d].created <= 1
            /\ sessions[call[c].session].documentId =
                   sessions[call[d].session].documentId

\* C35: the step in which a service-level endSession ends the session
\* changes the isActive flag of no session other than the one the call read
\* at its start and returns.
C35_Step ==
    \A c \in SvcRaceCallers :
        (call[c].op = "endSession" /\ call[c].pc = "sessionEnd"
             /\ call'[c].pc = "done" /\ call'[c].error = "") =>
            \A ref \in 1 .. Len(sessions) :
                ref # call[c].session =>
                    sessions'[ref].isActive = sessions[ref].isActive

C35_EndDeactivatesOwn == [][C35_Step]_vars

\* ------------------------------------- claims on failures of the collaborator
\* (checked under SvcSpec)

\* C36: when the append of the end-of-session content fails, endSession
\* throws the error, the session it read stays active and in the slot, and
\* the sessions, the histories and the index are as they were.
C36_Step ==
    \A c \in Callers :
        (call[c].op = "endSession" /\ call[c].pc = "sessionEnd"
           /\ call'[c].pc = "done" /\ call'[c].error # "") =>
            LET S == call[c].session
            IN  /\ call'[c].error = "CollaboratorError"
                /\ S # NoSession
                /\ currentSession' = S
                /\ sessions'[S].isActive
                /\ UNCHANGED smVars

C36_FailedEndKeepsSession == [][C36_Step]_vars

\* endSession failed on the append and its session is still the active one
C36_Witness ==
    \E c \in Callers :
        /\ call[c].op = "endSession"
        /\ call[c].pc = "done"
        /\ call[c].error = "CollaboratorError"
        /\ call[c].session # NoSession
        /\ currentSession = call[c].session
        /\ sessions[call[c].session].isActive
        /\ todaysDocuments[sessions[call[c].session].projectName] # NoDoc

\* ------------------------------------ claims on memory and the token file
\* (checked under AuthSpec)

\* C37: once clearTokens() has returned, the in-memory token set is empty
\* and isAuthenticated() is false, whether or not the token file existed
\* when it was called.
C37_ClearTokensEmptiesMemory ==
    \A c \in AuthCallers :
        (acall[c].pc = "done" /\ acall[c].op = "clearTokens") =>
            /\ oauth2Client.credentials = EmptyCredentials
            /\ ~isAuthenticated

\* the token set a load of the token file gives: none when absent or unreadable
FileTokenSet ==
    IF tokenFile.kind = "tokens" THEN TokenDataSchema(tokenFile.tokens)
    ELSE EmptyCredentials

\* C38: after every completed initialize, refreshTokens (through
\* getAuthenticatedClient), handleAuthCode and clearTokens, failed or not,
\* the in-memory token set equals the token set of the token file, or both
\* are empty.
C38_MemoryAgreesWithFile ==
    \A c \in AuthCallers :
        (acall[c].pc = "done"
           /\ acall[c].op \in {"initialize", "getAuthenticatedClient",
                               "handleAuthCode", "clearTokens"}
           /\ oauth2Client.exists) =>
            oauth2Client.credentials = FileTokenSet

\* C39: continueSession ends the session and reports that the document no
\* longer exists only when the session's document did not resolve; when the
\* document resolved and the append of the continuation marker then fails,
\* the continued session stays active.
C39_Step ==
    \A c \in Callers :
        (call[c].op = "continueSession" /\ call[c].pc \in {"continueGetDocument", "marker"}
           /\ call'[c].pc = "done" /\ call'[c].error # "") =>
            /\ call'[c].error = ErrDocumentGone => ~call[c].resolved
            /\ call[c].resolved =>
                   /\ currentSession' = call[c].session
                   /\ sessions'[call[c].session].isActive

C39_InvalidatesOnlyUnresolved == [][C39_Step]_vars

====
